---- MODULE Spec2Model ----
(***************************************************************************)
(* House-price prediction workflow: the Strategy/Context classes, the      *)
(* train/test splitter, the feature-engineering transformations and the    *)
(* model-building step, as state machines.                                  *)
(***************************************************************************)
EXTENDS Integers, Sequences, FiniteSets, TLC

VARIABLES
    strategy,     \* Context -> the object held in its _strategy field
    given,        \* Context -> the value most recently given by __init__/set_strategy
    last,         \* record of the call that completed last
    memo,         \* record of one earlier call, kept for comparison
    np_random,    \* state of numpy's global random generator
    fitted,       \* strategy instance -> parameters held by its scaler/encoder
    active_run,   \* whether an experiment-tracking (mlflow) run is active
    autolog,      \* whether mlflow.sklearn.autolog() has been switched on
    heap,         \* the Python objects created so far, by identity
    registry,     \* the model registry: the versions of each named model
    extracted_data \* the directory "extracted_data": file name -> content

vars == <<strategy, given, last, memo, np_random, fitted, active_run, autolog,
          heap, registry, extracted_data>>

\* nothing has been created, registered or extracted
Untouched == heap = <<>> /\ registry = <<>> /\ extracted_data = <<>>

\* Python's None as a result value
None == <<>>
NoCall == [op |-> "none"]

(***************************************************************************)
(* Bounds                                                                  *)
(***************************************************************************)
MaxRows == 5

(***************************************************************************)
(* Generic helpers                                                         *)
(***************************************************************************)
Range(s) == {s[i] : i \in 1..Len(s)}

RECURSIVE SeqSum(_)
SeqSum(s) == IF s = <<>> THEN 0 ELSE Head(s) + SeqSum(Tail(s))

RECURSIVE SeqMin(_)
SeqMin(s) ==
    IF Len(s) = 1 THEN s[1]
    ELSE LET m == SeqMin(Tail(s)) IN IF Head(s) <= m THEN Head(s) ELSE m

RECURSIVE SeqMax(_)
SeqMax(s) ==
    IF Len(s) = 1 THEN s[1]
    ELSE LET m == SeqMax(Tail(s)) IN IF Head(s) >= m THEN Head(s) ELSE m

Abs(a) == IF a < 0 THEN -a ELSE a

RECURSIVE Gcd(_, _)
Gcd(a, b) == IF b = 0 THEN a ELSE Gcd(b, a % b)

\* the fraction p/q (q > 0) in lowest terms, as <<numerator, denominator>>
Frac(p, q) ==
    LET g == Gcd(Abs(p), q)
    IN IF g = 0 THEN <<0, 1>> ELSE <<p \div g, q \div g>>

\* positions of s whose element satisfies membership in keep, in order
RECURSIVE SelectPos(_, _, _)
SelectPos(s, keep, i) ==
    IF i > Len(s) THEN <<>>
    ELSE IF s[i] \in keep THEN <<i>> \o SelectPos(s, keep, i + 1)
         ELSE SelectPos(s, keep, i + 1)

\* position of column c in a column list (0 when absent)
ColPos(columns, c) ==
    IF c \in Range(columns)
    THEN CHOOSE j \in 1..Len(columns) :
             columns[j] = c /\ \A k \in 1..(j - 1) : columns[k] # c
    ELSE 0

(***************************************************************************)
(* pandas objects.  A DataFrame is [columns, index, data] with data[i][j]  *)
(* the value of the i-th row in the j-th column; a Series is               *)
(* [name, index, values].                                                  *)
(***************************************************************************)
NRows(df) == Len(df.index)

\* row labels of a frame or series, as a set
Labels(obj) == Range(obj.index)

\* df.loc[l]: the row of frame df that carries index label l
RowAt(df, l) == df.data[CHOOSE i \in 1..NRows(df) : df.index[i] = l]

\* df.drop(columns=cols)
DropColumns(df, cols) ==
    LET keepPos == SelectPos(df.columns, Range(df.columns) \ cols, 1)
    IN [columns |-> [j \in 1..Len(keepPos) |-> df.columns[keepPos[j]]],
        index   |-> df.index,
        data    |-> [i \in 1..NRows(df) |->
                        [j \in 1..Len(keepPos) |-> df.data[i][keepPos[j]]]]]

\* df[c] for a column label c
GetColumn(df, c) ==
    [name   |-> c,
     index  |-> df.index,
     values |-> [i \in 1..NRows(df) |-> df.data[i][ColPos(df.columns, c)]]]

\* X.iloc[idx] for a DataFrame
TakeRows(df, idx) ==
    [columns |-> df.columns,
     index   |-> [k \in 1..Len(idx) |-> df.index[idx[k]]],
     data    |-> [k \in 1..Len(idx) |-> df.data[idx[k]]]]

\* y.iloc[idx] for a Series
TakeValues(y, idx) ==
    [name   |-> y.name,
     index  |-> [k \in 1..Len(idx) |-> y.index[idx[k]]],
     values |-> [k \in 1..Len(idx) |-> y.values[idx[k]]]]

(***************************************************************************)
(* The Strategy/Context pattern.  Seven classes hold a strategy in         *)
(* _strategy, replace it in set_strategy and delegate to it in one         *)
(* execute method.                                                         *)
(***************************************************************************)
Contexts ==
    {"DataSplitter", "FeatureEngineer", "ModelBuilder", "ModelEvaluator",
     "DataInspector", "UnivariateAnalyzer", "BivariateAnalyzer"}

\* the execute methods whose body is "return self._strategy.<operation>(...)";
\* the other three call the operation as a statement and fall off the end
ReturningContexts ==
    {"DataSplitter", "FeatureEngineer", "ModelBuilder", "ModelEvaluator"}

\* number of arguments of each execute method
Arity(ctx) ==
    CASE ctx = "DataSplitter"       -> 2     \* split(df, target_column)
      [] ctx = "FeatureEngineer"    -> 1     \* apply_feature_engineering(df)
      [] ctx = "ModelBuilder"       -> 2     \* build_model(X_train, y_train)
      [] ctx = "ModelEvaluator"     -> 3     \* evaluate(model, X_test, y_test)
      [] ctx = "DataInspector"      -> 1     \* execute_inspection(df)
      [] ctx = "UnivariateAnalyzer" -> 2     \* execute_analysis(df, feature)
      [] ctx = "BivariateAnalyzer"  -> 3     \* execute_analysis(df, feature1, feature2)

\* opaque argument values
ArgTokens == {"p", "q"}
ArgsOf(ctx) == [1..Arity(ctx) -> ArgTokens]

\* objects that implement the strategy operation, and the values a caller may
\* hand to __init__/set_strategy (nothing is validated, None included)
StrategyObjects == {"s1", "s2"}
NotAStrategy == "None"
StrategyValues == StrategyObjects \cup {NotAStrategy}

\* The single operation of a strategy object, as seen by the Context: it
\* either raises or returns a value.  s1 always returns; s2 raises when its
\* first argument is "q".
StrategyOp(s, args) ==
    IF s = "s2" /\ args[1] = "q"
    THEN [raised |-> "StrategyError", value |-> None]
    ELSE [raised |-> "none", value |-> <<"result", s, args>>]

\* an execute body that calls the operation as a statement in every Context
ForwardDropResult(ctx, held, args) ==
    IF held \notin StrategyObjects
    THEN [invoked |-> <<>>, outcome |-> "AttributeError", result |-> None]
    ELSE LET r == StrategyOp(held, args)
         IN [invoked |-> <<[strategy |-> held, args |-> args]>>,
             outcome |-> IF r.raised # "none" THEN r.raised ELSE "return",
             result  |-> None]

\* The body of a Context's execute method with `held` in _strategy:
\* which invocations of the strategy operation it makes, and how it ends.
Forward(ctx, held, args) ==
    IF held \notin StrategyObjects
    THEN [invoked |-> <<>>, outcome |-> "AttributeError", result |-> None]
    ELSE LET r == StrategyOp(held, args)
         IN [invoked |-> <<[strategy |-> held, args |-> args]>>,
             outcome |-> IF r.raised # "none" THEN r.raised ELSE "return",
             result  |-> IF r.raised = "none" /\ ctx \in ReturningContexts
                         THEN r.value ELSE None]

\* a set_strategy that ignores a value that is no strategy object
HeldAfterSetValidated(old, new) == IF new \in StrategyObjects THEN new ELSE old

\* the value of _strategy after set_strategy(new) when it held old
HeldAfterSet(old, new) == new

\* the value of _strategy after an execute call
HeldAfterExecute(ctx, held, args) == held

\* every Context is constructed with a strategy object
CtxInit ==
    /\ strategy \in [Contexts -> StrategyObjects]
    /\ given = strategy
    /\ last = NoCall
    /\ memo = NoCall
    /\ np_random = 0
    /\ fitted = <<>>
    /\ active_run = FALSE
    /\ autolog = FALSE
    /\ Untouched

SetStrategy(ctx, s) ==
    /\ strategy' = [strategy EXCEPT ![ctx] = HeldAfterSet(strategy[ctx], s)]
    /\ given' = [given EXCEPT ![ctx] = s]
    /\ last' = [op |-> "set_strategy", ctx |-> ctx, args |-> <<s>>,
                invoked |-> <<>>, outcome |-> "return", result |-> None]
    /\ UNCHANGED <<memo, np_random, fitted, active_run, autolog,
                   heap, registry, extracted_data>>

Execute(ctx, args) ==
    LET f == Forward(ctx, strategy[ctx], args)
    IN /\ last' = [op |-> "execute", ctx |-> ctx, args |-> args,
                   invoked |-> f.invoked, outcome |-> f.outcome,
                   result |-> f.result]
       /\ strategy' = [strategy EXCEPT
                          ![ctx] = HeldAfterExecute(ctx, strategy[ctx], args)]
       /\ UNCHANGED <<given, memo, np_random, fitted, active_run, autolog,
                      heap, registry, extracted_data>>

CtxSetStrategy == \E ctx \in Contexts, s \in StrategyValues : SetStrategy(ctx, s)
CtxExecute == \E ctx \in Contexts : \E args \in ArgsOf(ctx) : Execute(ctx, args)

CtxNext == CtxSetStrategy \/ CtxExecute

SpecCtx == CtxInit /\ [][CtxNext]_vars

(***************************************************************************)
(* Properties of the Strategy/Context pattern                              *)
(***************************************************************************)
Executed == last.op = "execute"

\* C1 (as amended): an execute call on a Context that holds a strategy object
\* invokes that object's operation exactly once with the call's arguments in
\* the same order; an exception of the operation ends the call; otherwise
\* DataSplitter.split, FeatureEngineer.apply_feature_engineering,
\* ModelBuilder.build_model and ModelEvaluator.evaluate return the operation's
\* result unchanged, while DataInspector.execute_inspection and
\* UnivariateAnalyzer/BivariateAnalyzer.execute_analysis return None whatever
\* the operation returned.
C1_Forwarding ==
    (Executed /\ strategy[last.ctx] \in StrategyObjects) =>
        LET held == strategy[last.ctx]
            r == StrategyOp(held, last.args)
        IN /\ last.invoked = <<[strategy |-> held, args |-> last.args]>>
           /\ r.raised # "none" => last.outcome = r.raised
           /\ r.raised = "none" =>
                  /\ last.outcome = "return"
                  /\ last.ctx \in {"DataSplitter", "FeatureEngineer",
                                   "ModelBuilder", "ModelEvaluator"}
                         => last.result = r.value
                  /\ last.ctx \in {"DataInspector", "UnivariateAnalyzer",
                                   "BivariateAnalyzer"}
                         => last.result = None

\* an analyzer call with three distinguishable arguments that returned
C1_Witness ==
    /\ Executed
    /\ last.ctx = "BivariateAnalyzer"
    /\ last.args = <<"p", "q", "q">>
    /\ last.outcome = "return"
    /\ Len(last.invoked) = 1

\* C1 as stated: every Context returns the result of its strategy's operation.
C1_Original ==
    (Executed /\ strategy[last.ctx] \in StrategyObjects
              /\ last.outcome = "return")
        => last.result = StrategyOp(strategy[last.ctx], last.args).value

\* C2: the strategy an execute call uses is the value most recently given to
\* the constructor or set_strategy (a value that is no strategy object makes
\* the call fail with AttributeError); _strategy changes only in a
\* set_strategy call on that Context, to exactly the value given, whatever it
\* is; set_strategy changes nothing else, and execute never changes _strategy.
C2_HeldStrategy ==
    /\ [](Executed =>
            IF given[last.ctx] \in StrategyObjects
            THEN /\ last.invoked # <<>>
                 /\ last.invoked[1].strategy = given[last.ctx]
            ELSE last.invoked = <<>> /\ last.outcome = "AttributeError")
    /\ [][\A c \in DOMAIN strategy :
              strategy'[c] # strategy[c] =>
                  /\ last'.op = "set_strategy"
                  /\ last'.ctx = c
                  /\ strategy'[c] = last'.args[1]]_vars
    /\ [][(last'.op = "set_strategy" /\ last' # last) =>
              /\ strategy'[last'.ctx] = last'.args[1]
              /\ \A c \in DOMAIN strategy \ {last'.ctx} : strategy'[c] = strategy[c]
              /\ UNCHANGED <<memo, np_random, fitted, active_run, autolog,
                             heap, registry, extracted_data>>]_vars

\* an execute call that found the None a set_strategy call had stored, while
\* another Context still holds a strategy object
C2_Witness ==
    /\ Executed
    /\ strategy[last.ctx] = NotAStrategy
    /\ last.outcome = "AttributeError"
    /\ \E c \in Contexts : strategy[c] = "s2"

(***************************************************************************)
(* Data splitting: SimpleTrainTestSplitStrategy.split_data behind          *)
(* DataSplitter.split.                                                     *)
(***************************************************************************)
\* The pseudo-random generator behind train_test_split.  numpy's generator
\* is a deterministic function of its state; a generator that steps through
\* RngModulus states stands for it.
RngModulus == 4
RngNext(s) == (s + 1) % RngModulus

\* RandomState(seed): a fresh generator whose state depends on the seed only
Seeded(seed) == seed % RngModulus

\* rng.permutation(n): Fisher-Yates from the last position down; returns the
\* permutation of 1..n and the generator state left behind
RECURSIVE Shuffle(_, _, _)
Shuffle(perm, s, i) ==
    IF i <= 1 THEN [perm |-> perm, state |-> s]
    ELSE LET j == (s % i) + 1
             swapped == [perm EXCEPT ![i] = perm[j], ![j] = perm[i]]
         IN Shuffle(swapped, RngNext(s), i - 1)

Permutation(n, s) == Shuffle([k \in 1..n |-> k], s, n)

\* random_state is <<seed>> for an int seed and <<>> for None
NoSeed == <<>>

\* a split that draws from the global generator whatever random_state is
RngForGlobal(random_state, global) == global

\* check_random_state(random_state): the generator state the split draws
\* from.  None selects numpy's global generator, an int a fresh seeded one.
RngFor(random_state, global) ==
    IF random_state = NoSeed THEN global ELSE Seeded(random_state[1])

\* n_test = ceil(test_size * n_samples), test_size given in percent
NTest(n, test_size) == (test_size * n + 99) \div 100

\* ind_test = permutation[:n_test]
TestIdx(perm, n_test) == SubSeq(perm, 1, n_test)

\* train indices taken one position early
TrainIdxOffByOne(perm, n_test, n_train) == SubSeq(perm, n_test, n_test + n_train - 1)

\* ind_train = permutation[n_test:(n_test + n_train)]
TrainIdx(perm, n_test, n_train) == SubSeq(perm, n_test + 1, n_test + n_train)

\* features that still hold the target column
FeaturesKeepTarget(df, target_column) == df

\* X = df.drop(columns=[target_column])
Features(df, target_column) == DropColumns(df, {target_column})

\* SimpleTrainTestSplitStrategy.split_data(df, target_column) of the instance
\* inst = [test_size, random_state] with the global generator in state global
split_data(inst, df, target_column, global) ==
    IF target_column \notin Range(df.columns)
    THEN [outcome |-> "KeyError", result |-> None, global |-> global]
    ELSE LET X == Features(df, target_column)
             y == GetColumn(df, target_column)
             n == NRows(df)
             n_test == NTest(n, inst.test_size)
             n_train == n - n_test
             p == Permutation(n, RngFor(inst.random_state, global))
             train == TrainIdx(p.perm, n_test, n_train)
             test == TestIdx(p.perm, n_test)
         IN IF n_train = 0
            THEN [outcome |-> "ValueError", result |-> None, global |-> global]
            ELSE [outcome |-> "return",
                  result  |-> [X_train |-> TakeRows(X, train),
                               X_test  |-> TakeRows(X, test),
                               y_train |-> TakeValues(y, train),
                               y_test  |-> TakeValues(y, test)],
                  global  |-> IF inst.random_state = NoSeed
                              THEN p.state ELSE global]

\* the strategy instances a DataSplitter is given
TestSizes == {20, 50}
RandomStates == {<<42>>, NoSeed}
SplitStrategies == [test_size : TestSizes, random_state : RandomStates]
DefaultSplitStrategy == [test_size |-> 20, random_state |-> <<42>>]

\* input datasets: a default 0..n-1 row index and distinct rows
Category(i) == <<"x", "y", "z">>[((i - 1) % 3) + 1]

\* cell values: a number v is <<"num", v>>, a category c is <<"cat", c>>
Num(v) == <<"num", v>>
Cat(c) == <<"cat", c>>

SplitFrame(n) ==
    [columns |-> <<"A", "target", "B">>,
     index   |-> [i \in 1..n |-> i - 1],
     data    |-> [i \in 1..n |-> <<Num(i), Num(100 + i), Cat(Category(i))>>]]

SplitFrames == {SplitFrame(n) : n \in 0..MaxRows}
TargetColumns == {"target", "price"}

SplitInit ==
    /\ strategy \in [{"DataSplitter"} -> SplitStrategies]
    /\ given = strategy
    /\ last = NoCall
    /\ memo = NoCall
    /\ np_random \in 0..(RngModulus - 1)
    /\ fitted = <<>>
    /\ active_run = FALSE
    /\ autolog = FALSE
    /\ Untouched

\* DataSplitter.set_strategy
SplitSetStrategy(inst) ==
    /\ strategy' = [strategy EXCEPT
                       !["DataSplitter"] = HeldAfterSet(strategy["DataSplitter"], inst)]
    /\ given' = [given EXCEPT !["DataSplitter"] = inst]
    /\ last' = [op |-> "set_strategy", ctx |-> "DataSplitter", args |-> <<inst>>,
                outcome |-> "return", result |-> None]
    /\ UNCHANGED <<memo, np_random, fitted, active_run, autolog,
                   heap, registry, extracted_data>>

\* DataSplitter.split(df, target_column)
Split(df, target_column, keep) ==
    \E r \in {split_data(strategy["DataSplitter"], df, target_column, np_random)} :
        /\ last' = [op |-> "split", ctx |-> "DataSplitter",
                    args |-> <<df, target_column>>,
                    strat |-> strategy["DataSplitter"],
                    rng |-> np_random, outcome |-> r.outcome, result |-> r.result]
        /\ np_random' = r.global
        /\ memo' = IF keep THEN last' ELSE memo
        /\ UNCHANGED <<strategy, given, fitted, active_run, autolog,
                       heap, registry, extracted_data>>

SplitSet == \E inst \in SplitStrategies : SplitSetStrategy(inst)
SplitCall ==
    \E df \in SplitFrames, target_column \in TargetColumns, keep \in BOOLEAN :
        Split(df, target_column, keep)

SplitNext == SplitSet \/ SplitCall

SpecSplit == SplitInit /\ [][SplitNext]_vars

(***************************************************************************)
(* Feature engineering: the four transformations behind                    *)
(* FeatureEngineer.apply_feature_engineering.                              *)
(***************************************************************************)
NaN == <<"nan">>
Unfitted == <<>>

IsNum(cell) == cell[1] = "num"

\* the cells of column c of df, top to bottom
ColumnCells(df, c) == [i \in 1..NRows(df) |-> df.data[i][ColPos(df.columns, c)]]

\* the numbers in column c of df
ColumnNumbers(df, c) == [i \in 1..NRows(df) |-> ColumnCells(df, c)[i][2]]

\* df_transformed[c] = cells, for a column c of df (the column keeps its place)
SetColumn(df, c, cells) ==
    [df EXCEPT !.data = [i \in 1..NRows(df) |->
                            [df.data[i] EXCEPT ![ColPos(df.columns, c)] = cells[i]]]]

\* df_transformed[features] = columns of cells, one per feature
RECURSIVE SetColumns(_, _, _)
SetColumns(df, features, cellsOf) ==
    IF features = <<>> THEN df
    ELSE SetColumns(SetColumn(df, Head(features), cellsOf[Head(features)]),
                    Tail(features), cellsOf)

\* np.log1p of one cell
Log1p(cell) ==
    IF cell[2] > -1 THEN <<"log1p", cell[2]>>
    ELSE IF cell[2] = -1 THEN <<"-inf">> ELSE NaN

\* StandardScaler.fit on one column: mean_ and var_ (population variance)
StandardFit(xs) ==
    LET n == Len(xs)
        sum == SeqSum(xs)
        sumsq == SeqSum([i \in 1..n |-> xs[i] * xs[i]])
    IN [mean |-> Frac(sum, n), var |-> Frac(n * sumsq - sum * sum, n * n)]

\* StandardScaler.transform of x: (x - mean_) / scale_, where scale_ is the
\* square root of var_, or 1 when var_ is 0.  The value z is written
\* <<"z", sign, P, Q>> with z = sign * sqrt(P / Q), P/Q in lowest terms.
StandardTransform(params, x) ==
    LET a == params.mean[1]
        b == params.mean[2]
        c == params.var[1]
        d == params.var[2]
        num == x * b - a
        sq == IF c = 0 THEN Frac(num * num, b * b)
              ELSE Frac(num * num * d, b * b * c)
        sign == IF num > 0 THEN 1 ELSE IF num < 0 THEN -1 ELSE 0
    IN <<"z", sign, sq[1], sq[2]>>

\* MinMaxScaler.fit on one column: data_min_ and data_max_
MinMaxFit(xs) == [min |-> SeqMin(xs), max |-> SeqMax(xs)]

\* MinMaxScaler.transform of x for feature_range=(0, 1):
\* (x - data_min_) / (data_max_ - data_min_), the divisor 1 for a constant
\* column; written <<"frac", p, q>> in lowest terms
MinMaxTransform(params, x) ==
    LET range == params.max - params.min
        f == Frac(x - params.min, IF range = 0 THEN 1 ELSE range)
    IN <<"frac", f[1], f[2]>>

\* OneHotEncoder.fit on one column: categories_ is the sorted list of the
\* values observed
CategoryOrder == <<"x", "y", "z">>
OneHotFit(cells) ==
    SelectSeq(CategoryOrder, LAMBDA c : Cat(c) \in Range(cells))

\* the names with no category dropped
IndicatorNamesAll(feature, categories) ==
    [k \in 1..Len(categories) |-> feature \o "_" \o categories[k]]

\* get_feature_names_out with drop="first": <feature>_<category> for every
\* category but the first
IndicatorNames(feature, categories) ==
    [k \in 1..(Len(categories) - 1) |-> feature \o "_" \o categories[k + 1]]

\* the encoded row of one cell with drop="first": 1.0 in the column of its
\* category, 0.0 elsewhere, no column for the first category
IndicatorRow(categories, cell) ==
    [k \in 1..(Len(categories) - 1) |->
        IF cell = Cat(categories[k + 1]) THEN Num(1) ELSE Num(0)]

RECURSIVE Flatten(_)
Flatten(ss) == IF ss = <<>> THEN <<>> ELSE Head(ss) \o Flatten(Tail(ss))

\* a frame whose index is left as it is
KeepIndex(df) == df

\* df.reset_index(drop=True)
ResetIndex(df) == [df EXCEPT !.index = [i \in 1..NRows(df) |-> i - 1]]

\* pd.concat([a, b], axis=1): the rows of a and b are joined on their index
\* labels; a label only one of them has gives NaN in the other's columns
ConcatColumns(a, b) ==
    LET extra == SelectSeq(b.index, LAMBDA l : l \notin Range(a.index))
        index == a.index \o extra
        side(f, l) == IF l \in Range(f.index) THEN RowAt(f, l)
                      ELSE [j \in 1..Len(f.columns) |-> NaN]
    IN [columns |-> a.columns \o b.columns,
        index   |-> index,
        data    |-> [i \in 1..Len(index) |-> side(a, index[i]) \o side(b, index[i])]]

\* a fit that keeps the parameters an earlier call learned
FitOnce(kind, old, df, features) ==
    IF old # Unfitted THEN old
    ELSE [f \in Range(features) |->
            CASE kind = "standard" -> StandardFit(ColumnNumbers(df, f))
              [] kind = "minmax"   -> MinMaxFit(ColumnNumbers(df, f))
              [] kind = "onehot"   -> OneHotFit(ColumnCells(df, f))]

\* partial_fit() in the place of fit(): what is learned is merged into what
\* an earlier call learned
FitAccumulate(kind, old, df, features) ==
    [f \in Range(features) |->
        CASE kind = "standard" ->
                 IF old # Unfitted THEN old[f]
                 ELSE StandardFit(ColumnNumbers(df, f))
          [] kind = "minmax" ->
                 LET new == MinMaxFit(ColumnNumbers(df, f))
                 IN IF old = Unfitted THEN new
                    ELSE [min |-> IF old[f].min < new.min THEN old[f].min ELSE new.min,
                          max |-> IF old[f].max > new.max THEN old[f].max ELSE new.max]
          [] kind = "onehot" ->
                 LET new == OneHotFit(ColumnCells(df, f))
                 IN IF old = Unfitted THEN new
                    ELSE SelectSeq(CategoryOrder,
                                   LAMBDA c : c \in Range(old[f]) \cup Range(new))]

\* learning the parameters of a scaler or encoder from df[features]:
\* fit() forgets what an earlier fit learned
Fit(kind, old, df, features) ==
    [f \in Range(features) |->
        CASE kind = "standard" -> StandardFit(ColumnNumbers(df, f))
          [] kind = "minmax"   -> MinMaxFit(ColumnNumbers(df, f))
          [] kind = "onehot"   -> OneHotFit(ColumnCells(df, f))]

\* scaler.transform(df[features]): the new cells of every feature column
Scaled(kind, params, df, features) ==
    [f \in Range(features) |->
        [i \in 1..NRows(df) |->
            IF kind = "standard"
            THEN StandardTransform(params[f], ColumnNumbers(df, f)[i])
            ELSE MinMaxTransform(params[f], ColumnNumbers(df, f)[i])]]

\* encoder.transform(df[features]) as a frame with a default 0..n-1 index
Encoded(params, df, features) ==
    [columns |-> Flatten([k \in 1..Len(features) |->
                            IndicatorNames(features[k], params[features[k]])]),
     index   |-> [i \in 1..NRows(df) |-> i - 1],
     data    |-> [i \in 1..NRows(df) |->
                    Flatten([k \in 1..Len(features) |->
                        IndicatorRow(params[features[k]],
                                     ColumnCells(df, features[k])[i])])]]

\* the strategy instances a FeatureEngineer is given: one of each class
FEInstances == {"log", "standard", "minmax", "onehot"}
StatefulInstances == {"standard", "minmax", "onehot"}

\* the features list each instance was constructed with
FEFeatures(inst) ==
    CASE inst = "log"      -> <<"A">>
      [] inst = "standard" -> <<"A">>
      [] inst = "minmax"   -> <<"A", "target">>
      [] inst = "onehot"   -> <<"B">>

\* a df_transformed that is the object df itself
DfSame(objects, ref) == [objects |-> objects, ref |-> ref]

\* df.copy(): a new object with the content of the object ref
DfCopy(objects, ref) ==
    [objects |-> Append(objects, objects[ref]), ref |-> Len(objects) + 1]

\* df_transformed[...] = ...: the object ref holds frame afterwards
Assign(objects, ref, frame) == [objects EXCEPT ![ref] = frame]

\* <strategy>.apply_transformation(df) of the instance inst whose scaler or
\* encoder holds the parameters old: how the call ends, what it returns,
\* what the scaler or encoder holds afterwards and what the object df holds
\* afterwards
apply_transformation(inst, old, df) ==
    LET features == FEFeatures(inst)
        cells == [f \in Range(features) |-> ColumnCells(df, f)]
        numeric == \A f \in Range(features) :
                       \A i \in 1..NRows(df) : IsNum(cells[f][i])
        df_transformed == DfCopy(<<df>>, 1)
        copied == df_transformed.objects
        assigned(frame) == Assign(copied, df_transformed.ref, frame)
    IN IF \E f \in Range(features) : f \notin Range(df.columns)
       THEN [outcome |-> "KeyError", result |-> None, state |-> old,
             input |-> copied[1]]
       ELSE IF inst = "log"
       THEN IF ~numeric
            THEN [outcome |-> "TypeError", result |-> None, state |-> old,
                  input |-> copied[1]]
            ELSE LET after == assigned(SetColumns(copied[df_transformed.ref], features,
                                 [f \in Range(features) |->
                                     [i \in 1..NRows(df) |-> Log1p(cells[f][i])]]))
                 IN [outcome |-> "return",
                     result  |-> after[df_transformed.ref],
                     state   |-> old,
                     input   |-> after[1]]
       ELSE IF inst \in {"standard", "minmax"}
       THEN IF NRows(df) = 0 \/ ~numeric
            THEN [outcome |-> "ValueError", result |-> None, state |-> Unfitted,
                  input |-> copied[1]]
            ELSE LET params == Fit(inst, old, df, features)
                     after == assigned(SetColumns(copied[df_transformed.ref], features,
                                           Scaled(inst, params, df, features)))
                 IN [outcome |-> "return",
                     result  |-> after[df_transformed.ref],
                     state   |-> params,
                     input   |-> after[1]]
       ELSE IF NRows(df) = 0
            THEN [outcome |-> "ValueError", result |-> None, state |-> old,
                  input |-> copied[1]]
            ELSE LET params == Fit(inst, old, df, features)
                     encoded_df == Encoded(params, df, features)
                     dropped == ResetIndex(DropColumns(copied[df_transformed.ref],
                                                       Range(features)))
                 IN [outcome |-> "return",
                     result  |-> ConcatColumns(dropped, encoded_df),
                     state   |-> params,
                     input   |-> copied[1]]

\* input datasets: frames with a default index, and the two feature
\* partitions of a default split, whose index is not 0..n-1
MaxFERows == 3
Partitions ==
    LET r == split_data(DefaultSplitStrategy, SplitFrame(MaxFERows), "target", 0).result
    IN {r.X_train, r.X_test}
FEFrames == {SplitFrame(n) : n \in 0..MaxFERows} \cup Partitions

FEInit ==
    /\ strategy \in [{"FeatureEngineer"} -> FEInstances]
    /\ given = strategy
    /\ last = NoCall
    /\ memo = NoCall
    /\ np_random = 0
    /\ fitted = [i \in StatefulInstances |-> Unfitted]
    /\ active_run = FALSE
    /\ autolog = FALSE
    /\ Untouched

\* FeatureEngineer.set_strategy
FESetStrategy(inst) ==
    /\ strategy' = [strategy EXCEPT
                       !["FeatureEngineer"] = HeldAfterSet(strategy["FeatureEngineer"], inst)]
    /\ given' = [given EXCEPT !["FeatureEngineer"] = inst]
    /\ last' = [op |-> "set_strategy", ctx |-> "FeatureEngineer", args |-> <<inst>>,
                outcome |-> "return", result |-> None]
    /\ UNCHANGED <<memo, np_random, fitted, active_run, autolog,
                   heap, registry, extracted_data>>

\* FeatureEngineer.apply_feature_engineering(df)
Apply(df) ==
    LET inst == strategy["FeatureEngineer"]
        old == IF inst \in StatefulInstances THEN fitted[inst] ELSE Unfitted
    IN \E r \in {apply_transformation(inst, old, df)} :
        /\ last' = [op |-> "apply", ctx |-> "FeatureEngineer", args |-> <<df>>,
                    strat |-> inst,
                    refit |-> (old # Unfitted /\ r.state # old),
                    input |-> r.input,
                    outcome |-> r.outcome, result |-> r.result]
        /\ fitted' = IF inst \in StatefulInstances
                     THEN [fitted EXCEPT ![inst] = r.state] ELSE fitted
        /\ UNCHANGED <<strategy, given, memo, np_random, active_run, autolog,
                       heap, registry, extracted_data>>

FESet == \E inst \in FEInstances : FESetStrategy(inst)
FEApply == \E df \in FEFrames : Apply(df)

FENext == FESet \/ FEApply

SpecFE == FEInit /\ [][FENext]_vars

(***************************************************************************)
(* Model building: LinearRegressionStrategy.build_and_train_model behind   *)
(* ModelBuilder.build_model, and the pipeline step model_building_step.    *)
(***************************************************************************)
\* isinstance(v, pd.DataFrame)
IsDataFrame(v) == DOMAIN v = {"columns", "index", "data"}

\* a check of y_train that lets every value pass
IsSeriesAny(v) == TRUE

\* isinstance(v, pd.Series)
IsSeries(v) == DOMAIN v = {"name", "index", "values"}

\* a value that is neither: a numpy array
NdArray(n) == [shape |-> <<n>>, values |-> [i \in 1..n |-> Num(i)]]

\* training inputs: the feature frames of the split datasets with no row and
\* with MaxFERows rows, the numeric columns of the latter alone, the target
\* series of matching and of other length, a target with a missing value,
\* and arrays
TargetOf(n) == GetColumn(SplitFrame(n), "target")
WithMissing(y) == [y EXCEPT !.values = [i \in 1..Len(y.values) |->
                                           IF i = 1 THEN NaN ELSE y.values[i]]]
NumericOnly(X) == DropColumns(X, {"B"})
TrainX ==
    {Features(SplitFrame(n), "target") : n \in {0, MaxFERows}}
        \cup {NumericOnly(Features(SplitFrame(MaxFERows), "target"))}
        \cup {NdArray(2)}
TrainY ==
    {TargetOf(n) : n \in {MaxFERows - 1, MaxFERows}}
        \cup {WithMissing(TargetOf(MaxFERows))} \cup {NdArray(2)}

\* X.select_dtypes(include=['object', 'category']).columns
CategoricalCols(X) ==
    SelectSeq(X.columns, LAMBDA c : \E i \in 1..NRows(X) : ~IsNum(ColumnCells(X, c)[i]))

\* X.select_dtypes(exclude=['object', 'category']).columns
NumericalCols(X) ==
    SelectSeq(X.columns, LAMBDA c : \A i \in 1..NRows(X) : IsNum(ColumnCells(X, c)[i]))

\* One estimator of a pipeline, in the order fit reaches it: its name in the
\* pipeline, its class, the columns it is given, and whether it sits in a
\* branch of a ColumnTransformer (which skips a branch with no column).
Stage(name, estimator, columns, branch) ==
    [name |-> name, estimator |-> estimator, columns |-> columns, branch |-> branch]

\* Pipeline([("scaler", StandardScaler()), ("model", LinearRegression())])
StrategyStages(X_train) ==
    << Stage("scaler", "StandardScaler", X_train.columns, FALSE),
       Stage("model", "LinearRegression", X_train.columns, FALSE) >>

\* the step's pipeline with a scaler behind the numeric imputer
StepStagesScaled(X_train) ==
    << Stage("num", "SimpleImputer(mean)", NumericalCols(X_train), TRUE),
       Stage("cat.imputer", "SimpleImputer(most_frequent)", CategoricalCols(X_train), TRUE),
       Stage("cat.onehot", "OneHotEncoder", CategoricalCols(X_train), TRUE),
       Stage("num.scaler", "StandardScaler", NumericalCols(X_train), TRUE),
       Stage("model", "LinearRegression", X_train.columns, FALSE) >>

\* Pipeline(steps=[("preprocessor", ColumnTransformer([("num",
\* SimpleImputer(mean), numerical_cols), ("cat", Pipeline(imputer
\* most_frequent, onehot), categorical_cols)])), ("model", LinearRegression())])
StepStages(X_train) ==
    << Stage("num", "SimpleImputer(mean)", NumericalCols(X_train), TRUE),
       Stage("cat.imputer", "SimpleImputer(most_frequent)", CategoricalCols(X_train), TRUE),
       Stage("cat.onehot", "OneHotEncoder", CategoricalCols(X_train), TRUE),
       Stage("model", "LinearRegression", X_train.columns, FALSE) >>

\* a newly constructed Pipeline object: no estimator fitted
NewPipeline(stages) ==
    [class |-> "Pipeline", stages |-> stages, fits |-> [k \in 1..Len(stages) |-> 0]]

\* a ColumnTransformer does not fit a branch that selects no column
Skipped(stage) == stage.branch /\ stage.columns = <<>>

\* whether fitting one estimator on (X, y) raises ValueError: every estimator
\* rejects a dataset with no row, StandardScaler a column of strings,
\* LinearRegression a target of another length or with a missing value
StageRaises(stage, X, y) ==
    \/ NRows(X) = 0
    \/ stage.estimator = "StandardScaler"
          /\ \E k \in 1..Len(stage.columns) :
                stage.columns[k] \in Range(CategoricalCols(X))
    \/ stage.estimator = "LinearRegression"
          /\ (Len(y.values) # NRows(X) \/ NaN \in Range(y.values))

\* the estimator at which pipeline.fit(X, y) raises, 0 when it completes
RECURSIVE FailsAt(_, _, _, _)
FailsAt(stages, X, y, k) ==
    IF k > Len(stages) THEN 0
    ELSE IF ~Skipped(stages[k]) /\ StageRaises(stages[k], X, y) THEN k
    ELSE FailsAt(stages, X, y, k + 1)

\* pipeline.fit(X, y): fits the estimators in order, each once, up to the
\* one that raises
PipelineFit(p, X, y) ==
    LET at == FailsAt(p.stages, X, y, 1)
    IN [raised |-> IF at = 0 THEN <<>> ELSE <<"ValueError">>,
        pipeline |-> [p EXCEPT !.fits = [k \in 1..Len(p.stages) |->
            IF (at = 0 \/ k < at) /\ ~Skipped(p.stages[k]) THEN @[k] + 1 ELSE @[k]]]]

\* the largest number of Pipeline objects created in one behaviour
MaxPipelines == 2

\* a reference to the object heap[id]
Ref(id) == <<"object", id>>

\* LinearRegressionStrategy.build_and_train_model(X_train, y_train) with the
\* objects h: the exception raised, how the call ends, the reference it
\* returns, the objects after it, and the constructions and fits it made
build_and_train_model(h, X_train, y_train) ==
    IF ~IsDataFrame(X_train) \/ ~IsSeries(y_train)
    THEN [raised |-> <<"TypeError">>, outcome |-> "TypeError", result |-> None,
          heap |-> h, trace |-> <<>>]
    ELSE LET f == PipelineFit(NewPipeline(StrategyStages(X_train)), X_train, y_train)
         IN [raised  |-> f.raised,
             outcome |-> IF f.raised = <<>> THEN "return" ELSE f.raised[1],
             result  |-> IF f.raised = <<>> THEN Ref(Len(h) + 1) ELSE None,
             heap    |-> Append(h, f.pipeline),
             trace   |-> <<"Pipeline", "fit">>]

\* the attributes of a fitted ColumnTransformer
ColumnTransformerAttrs ==
    {"transformers", "remainder", "transformers_", "named_transformers_",
     "sparse_output_", "output_indices_", "n_features_in_", "feature_names_in_"}

\* the attribute the step means to read: the fitted transformers
ExpectedColumnsAttrFitted == "transformers_"

\* the attribute the step reads from the preprocessor after fitting
ExpectedColumnsAttr == "transformer_"

\* onehot_encoder.fit(X_train[categorical_cols]): one more fit of the
\* pipeline's one-hot encoder
RefitOneHot(p) ==
    [p EXCEPT !.fits = [k \in 1..Len(p.stages) |->
        IF p.stages[k].name = "cat.onehot" THEN @[k] + 1 ELSE @[k]]]

\* the statements of the try block after autolog: pipeline.fit, then the
\* collection of the expected column names
GuardedBlock(p, X_train, y_train) ==
    LET f == PipelineFit(p, X_train, y_train)
    IN IF f.raised # <<>> THEN f
       ELSE IF ExpectedColumnsAttr \notin ColumnTransformerAttrs
       THEN [raised |-> <<"AttributeError">>, pipeline |-> f.pipeline]
       ELSE [raised |-> <<>>, pipeline |-> RefitOneHot(f.pipeline)]

\* an except clause that raises the exception again after logging it
PropagatesAlways(e) == TRUE

\* the except clause of model_building_step ("except Exception as e:
\* logging.error(...)"): whether the exception e raised in the try block
\* leaves the step
Propagates(e) == FALSE

\* an end of the run that leaves a run open which the step did not start
RunAfterEndOwn(run) == run

\* mlflow.end_run() in the finally clause: whether a run is active after it,
\* given whether one was active when the step was called
RunAfterEnd(run) == FALSE

\* model_building_step(X_train, y_train) with the objects h, called while a
\* run is active or not: the exception raised inside it, what it logged as
\* an error, how it ends, the reference it returns, the objects and the
\* tracking state after it, and the constructions, fits and tracking calls
\* it made
model_building_step(h, X_train, y_train, run, logging) ==
    IF ~IsDataFrame(X_train) \/ ~IsSeries(y_train)
    THEN [raised |-> <<"TypeError">>, logged |-> <<>>, outcome |-> "TypeError",
          result |-> None, heap |-> h, trace |-> <<>>,
          started |-> FALSE, active_run |-> run, autolog |-> logging]
    ELSE LET g == GuardedBlock(NewPipeline(StepStages(X_train)), X_train, y_train)
             leaves == g.raised # <<>> /\ Propagates(g.raised[1])
         IN [raised  |-> g.raised,
             logged  |-> g.raised,
             outcome |-> IF leaves THEN g.raised[1] ELSE "return",
             result  |-> IF leaves THEN None ELSE Ref(Len(h) + 1),
             heap    |-> Append(h, g.pipeline),
             trace   |-> <<"Pipeline">>
                            \o (IF run THEN <<>> ELSE <<"start_run">>)
                            \o <<"autolog", "fit", "end_run">>,
             started |-> ~run,
             active_run |-> RunAfterEnd(run),
             autolog |-> TRUE]

BuildInit ==
    /\ strategy = [c \in {"ModelBuilder"} |-> "LinearRegressionStrategy"]
    /\ given = strategy
    /\ last = NoCall
    /\ memo = NoCall
    /\ np_random = 0
    /\ fitted = <<>>
    /\ active_run \in BOOLEAN
    /\ autolog = FALSE
    /\ Untouched

\* ModelBuilder.build_model(X_train, y_train)
BuildModel(X_train, y_train) ==
    \E r \in {build_and_train_model(heap, X_train, y_train)} :
        /\ Len(r.heap) <= MaxPipelines
        /\ last' = [op |-> "build_model", ctx |-> "ModelBuilder",
                    args |-> <<X_train, y_train>>, raised |-> r.raised,
                    logged |-> <<>>, trace |-> r.trace,
                    run_before |-> active_run, started |-> FALSE,
                    outcome |-> r.outcome, result |-> r.result]
        /\ heap' = r.heap
        /\ UNCHANGED <<strategy, given, memo, np_random, fitted, active_run, autolog,
                       registry, extracted_data>>

\* the pipeline step model_building_step(X_train, y_train)
ModelBuildingStep(X_train, y_train) ==
    \E r \in {model_building_step(heap, X_train, y_train, active_run, autolog)} :
        /\ Len(r.heap) <= MaxPipelines
        /\ last' = [op |-> "model_building_step", ctx |-> "step",
                    args |-> <<X_train, y_train>>, raised |-> r.raised,
                    logged |-> r.logged, trace |-> r.trace,
                    run_before |-> active_run, started |-> r.started,
                    outcome |-> r.outcome, result |-> r.result]
        /\ heap' = r.heap
        /\ active_run' = r.active_run
        /\ autolog' = r.autolog
        /\ UNCHANGED <<strategy, given, memo, np_random, fitted,
                       registry, extracted_data>>

\* the experiment tracker of the stack starts a run around a step
StartRun ==
    /\ ~active_run
    /\ active_run' = TRUE
    /\ UNCHANGED <<strategy, given, last, memo, np_random, fitted, autolog,
                   heap, registry, extracted_data>>

BuildCall == \E X \in TrainX, y \in TrainY : BuildModel(X, y)
StepCall == \E X \in TrainX, y \in TrainY : ModelBuildingStep(X, y)

BuildNext == BuildCall \/ StepCall \/ StartRun

SpecBuild == BuildInit /\ [][BuildNext]_vars

(***************************************************************************)
(* Model evaluation: RegressionModelEvaluationStrategy.evaluate_model       *)
(* behind ModelEvaluator.evaluate.                                         *)
(***************************************************************************)
\* a LinearRegression estimator: unfitted, or fitted with one coefficient
\* per feature and an intercept
UnfittedModel == [coef |-> <<>>, intercept |-> 0, is_fitted |-> FALSE]
LinearModel(coef, intercept) ==
    [coef |-> coef, intercept |-> intercept, is_fitted |-> TRUE]

IsModel(v) == DOMAIN v = {"coef", "intercept", "is_fitted"}

\* the numbers held by the cells of a row or of a series
Numbers(cells) == [i \in 1..Len(cells) |-> cells[i][2]]

RECURSIVE Dot(_, _)
Dot(a, b) == IF a = <<>> THEN 0 ELSE Head(a) * Head(b) + Dot(Tail(a), Tail(b))

\* a predict that also moves the intercept, as an estimator that learns
\* from the data it is asked about would
AfterPredictUpdated(model) == [model EXCEPT !.intercept = @ + 1]

\* the estimator after model.predict(X): predict assigns no attribute
AfterPredict(model) == model

\* model.predict(X_test): NotFittedError for an unfitted estimator,
\* ValueError for a frame with no row, with strings or with another number
\* of features, else intercept + coef . row for every row, in row order
Predict(model, X_test) ==
    IF ~model.is_fitted
    THEN [raised |-> <<"NotFittedError">>, value |-> <<>>]
    ELSE IF \/ NRows(X_test) = 0
            \/ CategoricalCols(X_test) # <<>>
            \/ Len(X_test.columns) # Len(model.coef)
    THEN [raised |-> <<"ValueError">>, value |-> <<>>]
    ELSE [raised |-> <<>>,
          value |-> [i \in 1..NRows(X_test) |->
                        model.intercept + Dot(model.coef, Numbers(X_test.data[i]))]]

\* whether sklearn's check of (y_true, y_pred) rejects them: another length,
\* no sample, or a missing value
MetricInputRejected(y_true, y_pred) ==
    \/ Len(y_true.values) # Len(y_pred)
    \/ Len(y_pred) = 0
    \/ NaN \in Range(y_true.values)

SquaredErrors(y_true, y_pred) ==
    [i \in 1..Len(y_pred) |-> (y_true.values[i][2] - y_pred[i]) * (y_true.values[i][2] - y_pred[i])]

\* sklearn.metrics.mean_squared_error(y_true, y_pred) called with the
\* positional arguments args: both are required
mean_squared_error(args) ==
    IF Len(args) < 2
    THEN [raised |-> <<"TypeError">>, value |-> NaN]
    ELSE IF MetricInputRejected(args[1], args[2])
    THEN [raised |-> <<"ValueError">>, value |-> NaN]
    ELSE [raised |-> <<>>,
          value |-> Frac(SeqSum(SquaredErrors(args[1], args[2])), Len(args[2]))]

\* sklearn.metrics.r2_score(y_true, y_pred) called with the positional
\* arguments args: 1 - SS_res/SS_tot, NaN for fewer than two samples, and
\* for a constant y_true 1 when the predictions are exact and else 0
r2_score(args) ==
    IF Len(args) < 2
    THEN [raised |-> <<"TypeError">>, value |-> NaN]
    ELSE IF MetricInputRejected(args[1], args[2])
    THEN [raised |-> <<"ValueError">>, value |-> NaN]
    ELSE LET n == Len(args[2])
             y == Numbers(args[1].values)
             res == SeqSum(SquaredErrors(args[1], args[2]))
             \* n * SS_tot
             tot == n * Dot(y, y) - SeqSum(y) * SeqSum(y)
         IN [raised |-> <<>>,
             value |-> IF n < 2 THEN NaN
                       ELSE IF tot = 0 THEN (IF res = 0 THEN Frac(1, 1) ELSE Frac(0, 1))
                       ELSE Frac(tot - n * res, tot)]

\* the dict {"Mean Squared Error": mse, "R-Squared": r2}
Metrics(mse, r2) == ("Mean Squared Error" :> mse) @@ ("R-Squared" :> r2)

\* the positional arguments the strategy passes to mean_squared_error when
\* it passes y_test and y_pred separately
MseArgsSeparate(y_test, y_pred) == <<y_test, y_pred>>

\* the positional arguments the strategy passes to mean_squared_error: the
\* one tuple (y_test, y_pred)
MseArgs(y_test, y_pred) == << <<y_test, y_pred>> >>

\* RegressionModelEvaluationStrategy.evaluate_model(model, X_test, y_test):
\* the predict calls made, the exception raised, how the call ends, what it
\* returns, and the three arguments after the call
evaluate_model(model, X_test, y_test) ==
    LET p == Predict(model, X_test)
        mse == mean_squared_error(MseArgs(y_test, p.value))
        r2 == r2_score(<<y_test, p.value>>)
        raised == IF p.raised # <<>> THEN p.raised
                  ELSE IF mse.raised # <<>> THEN mse.raised
                  ELSE r2.raised
    IN [predict |-> << [X |-> X_test, raised |-> p.raised, value |-> p.value] >>,
        raised  |-> raised,
        outcome |-> IF raised = <<>> THEN "return" ELSE raised[1],
        result  |-> IF raised = <<>> THEN Metrics(mse.value, r2.value) ELSE None,
        model   |-> AfterPredict(model),
        X_test  |-> X_test,
        y_test  |-> y_test]

\* the most evaluate calls made in one behaviour
MaxEvaluations == 3

\* the objects evaluation is called with: three estimators, three feature
\* frames and three targets
EvalObjects ==
    << LinearModel(<<2>>, 1), LinearModel(<<1>>, 100), UnfittedModel,
       NumericOnly(Features(SplitFrame(MaxFERows), "target")),
       NumericOnly(Features(SplitFrame(MaxFERows - 1), "target")),
       Features(SplitFrame(MaxFERows), "target"),
       TargetOf(MaxFERows), TargetOf(MaxFERows - 1), WithMissing(TargetOf(MaxFERows)) >>

EvalInit ==
    /\ strategy = [c \in {"ModelEvaluator"} |-> "RegressionModelEvaluationStrategy"]
    /\ given = strategy
    /\ last = NoCall
    /\ memo = NoCall
    /\ np_random = 0
    /\ fitted = <<>>
    /\ active_run = FALSE
    /\ autolog = FALSE
    /\ heap = EvalObjects
    /\ registry = <<>>
    /\ extracted_data = <<>>

\* ModelEvaluator.evaluate(model, X_test, y_test) on the objects m, x and y;
\* seq counts the evaluate calls
Evaluate(m, x, y, keep) ==
    \E r \in {evaluate_model(heap[m], heap[x], heap[y])} :
        /\ last' = [op |-> "evaluate", ctx |-> "ModelEvaluator",
                    seq |-> IF last = NoCall THEN 1 ELSE last.seq + 1,
                    refs |-> <<m, x, y>>,
                    args |-> <<heap[m], heap[x], heap[y]>>,
                    predict |-> r.predict, raised |-> r.raised,
                    outcome |-> r.outcome, result |-> r.result]
        /\ last'.seq <= MaxEvaluations
        /\ heap' = [heap EXCEPT ![m] = r.model, ![x] = r.X_test, ![y] = r.y_test]
        /\ memo' = IF keep THEN last' ELSE memo
        /\ UNCHANGED <<strategy, given, np_random, fitted, active_run, autolog,
                       registry, extracted_data>>

EvalCall ==
    \E m, x, y \in 1..Len(heap), keep \in BOOLEAN :
        /\ IsModel(heap[m]) /\ IsDataFrame(heap[x]) /\ IsSeries(heap[y])
        /\ Evaluate(m, x, y, keep)

EvalNext == EvalCall

SpecEval == EvalInit /\ [][EvalNext]_vars

(***************************************************************************)
(* Data ingestion: ZipDataIngestor.ingest and DataIngestorFactory.          *)
(***************************************************************************)
\* s.endswith(suffix)
EndsWith(s, suffix) ==
    Len(s) >= Len(suffix) /\ SubSeq(s, Len(s) - Len(suffix) + 1, Len(s)) = suffix

\* a zip archive with the given members (file name -> content), and a file
\* that is no archive
Archive(members) == [is_zip |-> TRUE, members |-> members]
PlainFile == [is_zip |-> FALSE, members |-> <<>>]

\* the files ingest is pointed at: path -> file
InputFiles ==
    ("one.zip" :> Archive("data.csv" :> "t1"))
        @@ ("other.zip" :> Archive("other.csv" :> "t2"))
        @@ ("same.zip" :> Archive("data.csv" :> "t3"))
        @@ ("none.zip" :> Archive("readme.txt" :> "r"))
        @@ ("two.zip" :> Archive(("a.csv" :> "t4") @@ ("b.csv" :> "t5")))
        @@ ("fake.zip" :> PlainFile)
        @@ ("data.csv" :> PlainFile)
        @@ ("archive.zip.bak" :> Archive("data.csv" :> "t1"))

\* the paths ingest is called with; "missing.zip" names no file
Paths == DOMAIN InputFiles \cup {"missing.zip", "zip"}

\* zipfile.ZipFile(file_path, "r"): the exception opening raises, if any
OpenRaises(file_path) ==
    IF file_path \notin DOMAIN InputFiles THEN <<"FileNotFoundError">>
    ELSE IF ~InputFiles[file_path].is_zip THEN <<"BadZipFile">>
    ELSE <<>>

\* zip_ref.extractall("extracted_data") into the directory dir: the members
\* are written over the files of the same name, the other files stay
ExtractAll(members, dir) == members @@ dir

\* [f for f in os.listdir("extracted_data") if f.endswith(".csv")]
CsvFiles(dir) == {f \in DOMAIN dir : EndsWith(f, ".csv")}

\* pd.read_csv(path): the table parsed from the content of the file
ReadCsv(content) == <<"DataFrame", content>>

\* an ingest that extracts before it looks at the name of the file
ingest_extract_first(file_path, dir) ==
    IF OpenRaises(file_path) # <<>>
    THEN [opened |-> <<file_path>>, outcome |-> OpenRaises(file_path)[1],
          result |-> None, dir |-> dir]
    ELSE [opened |-> <<file_path>>,
          outcome |-> IF EndsWith(file_path, ".zip") THEN "return" ELSE "ValueError",
          result |-> None,
          dir |-> ExtractAll(InputFiles[file_path].members, dir)]

\* ZipDataIngestor.ingest(file_path) with the directory dir: the files it
\* opened, how it ends, what it returns, and the directory after it
ingest(file_path, dir) ==
    IF ~EndsWith(file_path, ".zip")
    THEN [opened |-> <<>>, outcome |-> "ValueError", result |-> None, dir |-> dir]
    ELSE IF OpenRaises(file_path) # <<>>
    THEN [opened |-> <<file_path>>, outcome |-> OpenRaises(file_path)[1],
          result |-> None, dir |-> dir]
    ELSE LET after == ExtractAll(InputFiles[file_path].members, dir)
             csv_files == CsvFiles(after)
         IN IF csv_files = {}
            THEN [opened |-> <<file_path>>, outcome |-> "FileNotFoundError",
                  result |-> None, dir |-> after]
            ELSE IF Cardinality(csv_files) > 1
            THEN [opened |-> <<file_path>>, outcome |-> "ValueError",
                  result |-> None, dir |-> after]
            ELSE [opened |-> <<file_path>>, outcome |-> "return",
                  result |-> ReadCsv(after[CHOOSE f \in csv_files : TRUE]),
                  dir |-> after]

\* the extensions the factory is asked for
Extensions == {".zip", ".txt", ".csv", ".ZIP", "zip", "", ".tar.zip"}

\* DataIngestorFactory.get_data_ingestor(file_extension)
get_data_ingestor(file_extension) ==
    IF file_extension = ".zip"
    THEN [outcome |-> "return", result |-> <<"ZipDataIngestor">>]
    ELSE [outcome |-> "ValueError", result |-> None]

IngestInit ==
    /\ strategy = <<>>
    /\ given = <<>>
    /\ last = NoCall
    /\ memo = NoCall
    /\ np_random = 0
    /\ fitted = <<>>
    /\ active_run = FALSE
    /\ autolog = FALSE
    /\ Untouched

\* ZipDataIngestor().ingest(file_path)
Ingest(file_path) ==
    \E r \in {ingest(file_path, extracted_data)} :
        /\ last' = [op |-> "ingest", args |-> <<file_path>>, opened |-> r.opened,
                    before |-> extracted_data,
                    outcome |-> r.outcome, result |-> r.result]
        /\ extracted_data' = r.dir
        /\ UNCHANGED <<strategy, given, memo, np_random, fitted, active_run, autolog,
                       heap, registry>>

\* DataIngestorFactory.get_data_ingestor(file_extension)
GetDataIngestor(file_extension) ==
    \E r \in {get_data_ingestor(file_extension)} :
        /\ last' = [op |-> "get_data_ingestor", args |-> <<file_extension>>,
                    opened |-> <<>>, before |-> extracted_data,
                    outcome |-> r.outcome, result |-> r.result]
        /\ UNCHANGED <<strategy, given, memo, np_random, fitted, active_run, autolog,
                       heap, registry, extracted_data>>

IngestCall == \E file_path \in Paths : Ingest(file_path)
FactoryCall == \E file_extension \in Extensions : GetDataIngestor(file_extension)

IngestNext == IngestCall \/ FactoryCall

SpecIngest == IngestInit /\ [][IngestNext]_vars

(***************************************************************************)
(* The model registry: the versions model_building_step writes as a step   *)
(* of a training run, and model_loader.                                    *)
(***************************************************************************)
\* Model(name="prices_predictor", version=None) of model_building_step
StepModelName == "prices_predictor"

\* ArtifactConfig(name="sklearn_pipeline", is_model_artifact=True)
StepArtifactName == "sklearn_pipeline"

\* the artifact name model_loader asks for
LoaderArtifactName == "sklearn_pipeline"

\* the stage model_loader asks for
LoaderStage == "production"

\* one version of a registered model
ModelVersion(number, stage, artifacts) ==
    [number |-> number, stage |-> stage, artifacts |-> artifacts]

\* the most versions of one model in one behaviour
MaxVersions == 2

\* a run of the step with version=None registers the next version of the
\* model and links the returned object to it under the artifact name
RegisterVersion(reg, name, artifact_name, object) ==
    [reg EXCEPT ![name] =
        Append(@, ModelVersion(Len(@) + 1, "none", artifact_name :> object))]

\* promoting version v of a model to a stage: the version that held the
\* stage is archived
SetStage(reg, name, v, stage) ==
    [reg EXCEPT ![name] = [k \in 1..Len(@) |->
        IF k = v THEN [@[k] EXCEPT !.stage = stage]
        ELSE IF @[k].stage = stage THEN [@[k] EXCEPT !.stage = "archived"]
        ELSE @[k]]]

\* a lookup that takes the newest version whatever its stage
VersionLatest(versions, stage) == Len(versions)

\* Model(name=..., version=stage): the number of the version tagged with the
\* stage, 0 when there is none
VersionTagged(versions, stage) ==
    IF \E k \in 1..Len(versions) : versions[k].stage = stage
    THEN CHOOSE k \in 1..Len(versions) : versions[k].stage = stage
    ELSE 0

\* model_loader(model_name) on the registry reg: how it ends, what it
\* returns, and the registry after it
model_loader(reg, model_name) ==
    LET v == IF model_name \in DOMAIN reg
             THEN VersionTagged(reg[model_name], LoaderStage) ELSE 0
    IN IF v = 0
       THEN [outcome |-> "KeyError", result |-> None, registry |-> reg]
       ELSE IF LoaderArtifactName \notin DOMAIN reg[model_name][v].artifacts
       THEN [outcome |-> "AttributeError", result |-> None, registry |-> reg]
       ELSE [outcome |-> "return",
             result |-> reg[model_name][v].artifacts[LoaderArtifactName],
             registry |-> reg]

\* the training sets of the runs: feature frames with and without the
\* categorical column, targets of matching and of other length
RunX == TrainX \ {NdArray(2), Features(SplitFrame(0), "target")}
RunY == {TargetOf(MaxFERows), TargetOf(MaxFERows - 1)}

\* the names model_loader is called with; "absent" is not registered
ModelNames == {StepModelName, "other_model", "absent"}

\* a registry in which another model already has a production version
StoreInit ==
    /\ strategy = <<>>
    /\ given = <<>>
    /\ last = NoCall
    /\ memo = NoCall
    /\ np_random = 0
    /\ fitted = <<>>
    /\ active_run = FALSE
    /\ autolog = FALSE
    /\ heap = <<>>
    /\ registry = (StepModelName :> <<>>)
                    @@ ("other_model" :>
                          << ModelVersion(1, "production",
                                StepArtifactName :> NewPipeline(StrategyStages(SplitFrame(0)))) >>)
    /\ extracted_data = <<>>

\* a run of the training pipeline reaches model_building_step(X_train,
\* y_train) and stores what the step returns
TrainingRun(X_train, y_train) ==
    \E r \in {model_building_step(heap, X_train, y_train, active_run, autolog)} :
        /\ Len(registry[StepModelName]) < MaxVersions
        /\ last' = [op |-> "training_run", args |-> <<X_train, y_train>>,
                    outcome |-> r.outcome, result |-> r.result]
        /\ heap' = r.heap
        /\ active_run' = r.active_run
        /\ autolog' = r.autolog
        /\ registry' = IF r.outcome = "return"
                       THEN RegisterVersion(registry, StepModelName, StepArtifactName,
                                            r.heap[r.result[2]])
                       ELSE registry
        /\ UNCHANGED <<strategy, given, memo, np_random, fitted, extracted_data>>

\* version v of a model is promoted to production
Promote(name, v) ==
    /\ registry[name][v].stage # LoaderStage
    /\ registry' = SetStage(registry, name, v, LoaderStage)
    /\ last' = [op |-> "promote", args |-> <<name, v>>,
                outcome |-> "return", result |-> None]
    /\ UNCHANGED <<strategy, given, memo, np_random, fitted, active_run, autolog,
                   heap, extracted_data>>

\* the step model_loader(model_name)
ModelLoader(model_name) ==
    \E r \in {model_loader(registry, model_name)} :
        /\ last' = [op |-> "model_loader", args |-> <<model_name>>,
                    outcome |-> r.outcome, result |-> r.result]
        /\ registry' = r.registry
        /\ UNCHANGED <<strategy, given, memo, np_random, fitted, active_run, autolog,
                       heap, extracted_data>>

RunCall == \E X \in RunX, y \in RunY : TrainingRun(X, y)
PromoteCall ==
    \E name \in DOMAIN registry : \E v \in 1..Len(registry[name]) : Promote(name, v)
LoaderCall == \E model_name \in ModelNames : ModelLoader(model_name)

StoreNext == RunCall \/ PromoteCall \/ LoaderCall

SpecStore == StoreInit /\ [][StoreNext]_vars

(***************************************************************************)
(* Inference: the step predictor(service, input_data).                     *)
(***************************************************************************)
\* expected_columns of predictor
ExpectedColumns ==
    << "Order", "PID", "MS SubClass", "Lot Frontage", "Lot Area",
       "Overall Qual", "Overall Cond", "Year Built", "Year Remod/Add",
       "Mas Vnr Area", "BsmtFin SF 1", "BsmtFin SF 2", "Bsmt Unf SF",
       "Total Bsmt SF", "1st Flr SF", "2nd Flr SF", "Low Qual Fin SF",
       "Gr Liv Area", "Bsmt Full Bath", "Bsmt Half Bath", "Full Bath",
       "Half Bath", "Bedroom AbvGr", "Kitchen AbvGr", "TotRms AbvGrd",
       "Fireplaces", "Garage Yr Blt", "Garage Cars", "Garage Area",
       "Wood Deck SF", "Open Porch SF", "Enclosed Porch", "3Ssn Porch",
       "Screen Porch", "Pool Area", "Misc Val", "Mo Sold", "Yr Sold" >>

\* the most rows in the "data" of one payload
MaxPayloadRows == 2

\* rows of a payload: row b holds the numbers 100b+1, 100b+2, ... ; one row
\* with a value per expected column and one that is a value short
PayloadRow(b, n) == [j \in 1..n |-> Num(100 * b + j)]
PayloadRows ==
    {PayloadRow(1, Len(ExpectedColumns)), PayloadRow(2, Len(ExpectedColumns) - 1)}

RECURSIVE SeqsUpTo(_, _)
SeqsUpTo(S, n) ==
    IF n = 0 THEN {<<>>}
    ELSE LET shorter == SeqsUpTo(S, n - 1)
         IN shorter \cup {Append(s, e) : s \in {t \in shorter : Len(t) = n - 1}, e \in S}

\* the JSON texts predictor is given: objects with or without the keys
\* "columns", "index", "schema" and "data", an array, and a text that is no
\* JSON
JsonObjects ==
    {[type |-> "object", value |-> bookkeeping @@ data] :
        bookkeeping \in {<<>>, "columns" :> <<"c">>, "index" :> <<0>>,
                         ("columns" :> <<"c">>) @@ ("index" :> <<0>>),
                         ("columns" :> <<"c">>) @@ ("schema" :> <<"s">>)},
        data \in {<<>>} \cup {"data" :> rows : rows \in SeqsUpTo(PayloadRows, MaxPayloadRows)}}
Payloads ==
    JsonObjects \cup {[type |-> "array", value |-> <<>>],
                      [type |-> "malformed", value |-> <<>>]}

\* json.loads(input_data)
JsonLoads(input_data) ==
    IF input_data.type = "malformed"
    THEN [raised |-> <<"JSONDecodeError">>, value |-> None]
    ELSE [raised |-> <<>>, value |-> input_data]

\* data.pop(key, None) on a dict
Pop(dict, key) == [k \in DOMAIN dict \ {key} |-> dict[k]]

\* pd.DataFrame(rows, columns=columns) for a list of rows: a row shorter
\* than the longest is filled with NaN; ValueError when the longest row has
\* not one value per column
DataFrame(rows, columns) ==
    LET width == IF rows = <<>> THEN Len(columns)
                 ELSE SeqMax([i \in 1..Len(rows) |-> Len(rows[i])])
    IN IF width # Len(columns)
       THEN [raised |-> <<"ValueError">>, value |-> None]
       ELSE [raised |-> <<>>,
             value |-> [columns |-> columns,
                        index   |-> [i \in 1..Len(rows) |-> i - 1],
                        data    |-> [i \in 1..Len(rows) |->
                                        [j \in 1..width |->
                                            IF j <= Len(rows[i]) THEN rows[i][j] ELSE NaN]]]]

\* a frame that is not transposed
NoTranspose(df) == df

\* df.T
Transpose(df) ==
    [columns |-> df.index,
     index   |-> df.columns,
     data    |-> [j \in 1..Len(df.columns) |-> [i \in 1..NRows(df) |-> df.data[i][j]]]]

\* list(df.to_dict().values()): for every column of df, in order, the dict
\* of its values by index label
ToDictValues(df) ==
    [k \in 1..Len(df.columns) |->
        [l \in Range(df.index) |-> df.data[ColPos(df.index, l)][k]]]

\* json.loads(json.dumps(records)): numbers and NaN come back as they were
JsonValue(v) == IF IsNum(v) THEN Num(v[2]) ELSE NaN
JsonRoundTrip(records) ==
    [i \in 1..Len(records) |-> [k \in DOMAIN records[i] |-> JsonValue(records[i][k])]]

\* a deployed prediction service
Service(name, healthy) == [name |-> name, running |-> FALSE, healthy |-> healthy]
Services == <<Service("a", TRUE), Service("b", FALSE)>>

\* service.start(timeout=10)
Start(service) == [service EXCEPT !.running = TRUE]

\* service.predict(data_array): the server's prediction for every record, in
\* order; an error of the server (it is down, or the input is empty or has
\* not the columns of the model) is raised
ServicePredict(service, data_array) ==
    IF ~service.running
    THEN [raised |-> <<"Exception">>, value |-> None]
    ELSE IF \/ ~service.healthy
            \/ data_array = <<>>
            \/ \E i \in 1..Len(data_array) :
                  DOMAIN data_array[i] # Range(ExpectedColumns)
    THEN [raised |-> <<"HTTPError">>, value |-> None]
    ELSE [raised |-> <<>>,
          value |-> [i \in 1..Len(data_array) |->
                        <<"price", service.name, data_array[i][ExpectedColumns[1]]>>]]

\* predictor(service, input_data): the service after the call, the keys of
\* the parsed payload after the two pops, the predict calls made, how the
\* call ends and what it returns
predictor(service, input_data) ==
    LET started == Start(service)
        parsed == JsonLoads(input_data)
        stop(e) == [service |-> started, keys |-> {}, calls |-> <<>>,
                    outcome |-> e, result |-> None]
    IN IF parsed.raised # <<>> THEN stop(parsed.raised[1])
       ELSE IF parsed.value.type # "object" THEN stop("TypeError")
       ELSE LET data == Pop(Pop(parsed.value.value, "columns"), "index")
            IN IF "data" \notin DOMAIN data
               THEN [stop("KeyError") EXCEPT !.keys = DOMAIN data]
               ELSE LET df == DataFrame(data["data"], ExpectedColumns)
                    IN IF df.raised # <<>>
                       THEN [stop(df.raised[1]) EXCEPT !.keys = DOMAIN data]
                       ELSE LET data_array ==
                                    JsonRoundTrip(ToDictValues(Transpose(df.value)))
                                p == ServicePredict(started, data_array)
                            IN [service |-> started,
                                keys    |-> DOMAIN data,
                                calls   |-> << [arg |-> data_array, raised |-> p.raised,
                                                returned |-> p.value] >>,
                                outcome |-> IF p.raised = <<>> THEN "return"
                                            ELSE p.raised[1],
                                result  |-> p.value]

PredictInit ==
    /\ strategy = <<>>
    /\ given = <<>>
    /\ last = NoCall
    /\ memo = NoCall
    /\ np_random = 0
    /\ fitted = <<>>
    /\ active_run = FALSE
    /\ autolog = FALSE
    /\ heap = Services
    /\ registry = <<>>
    /\ extracted_data = <<>>

\* the step predictor(service, input_data) with the service object s
Predictor(s, input_data) ==
    \E r \in {predictor(heap[s], input_data)} :
        /\ last' = [op |-> "predictor", args |-> <<s, input_data>>,
                    keys |-> r.keys, calls |-> r.calls,
                    outcome |-> r.outcome, result |-> r.result]
        /\ heap' = [heap EXCEPT ![s] = r.service]
        /\ UNCHANGED <<strategy, given, memo, np_random, fitted, active_run, autolog,
                       registry, extracted_data>>

PredictorCall == \E s \in 1..Len(heap), input_data \in Payloads : Predictor(s, input_data)

PredictNext == PredictorCall

SpecPredict == PredictInit /\ [][PredictNext]_vars

(***************************************************************************)
(* Evaluation step: model_evaluator_step on the pipeline that              *)
(* model_building_step returned.                                           *)
(***************************************************************************)
\* isinstance of sklearn's Pipeline
IsPipeline(v) == DOMAIN v = {"class", "stages", "fits"}

\* trained_model.named_steps['preprocessor']: the positions of the branches
\* of the ColumnTransformer that select a column
PreprocessorOf(p) ==
    {k \in 1..Len(p.stages) : p.stages[k].branch /\ ~Skipped(p.stages[k])}

\* trained_model.named_steps['model']: the position of the LinearRegression
ModelStageOf(p) == CHOOSE k \in 1..Len(p.stages) : p.stages[k].name = "model"

\* the LinearRegression of the pipeline as an estimator: fitted when the
\* pipeline's fit reached it, with one coefficient per column the
\* preprocessor puts out (the numerical columns; the values the fit learned
\* are taken to be 1 and 0)
NamedModel(p) ==
    IF p.fits[ModelStageOf(p)] = 0 THEN UnfittedModel
    ELSE LinearModel([k \in 1..Len(p.stages[1].columns) |-> 1], 0)

\* preprocessor.transform(X_test) of a preprocessor whose "cat" branch
\* selected no column: NotFittedError before fit, ValueError when a column
\* it was fitted on is missing, else the numerical columns it was fitted
\* on, in that order (no value is missing in them, so the imputer changes
\* none); held with the column labels it came from
Transform(p, X_test) ==
    LET columns == p.stages[1].columns
    IN IF \E k \in PreprocessorOf(p) : p.fits[k] = 0
       THEN [raised |-> <<"NotFittedError">>, value |-> None]
       ELSE IF \E k \in 1..Len(columns) : columns[k] \notin Range(X_test.columns)
       THEN [raised |-> <<"ValueError">>, value |-> None]
       ELSE [raised |-> <<>>,
             value |-> DropColumns(X_test, Range(X_test.columns) \ Range(columns))]

\* model_evaluator_step(trained_model, X_test, y_test): the calls made on
\* the steps of the pipeline, the exception raised, how the call ends, what
\* it returns, and the pipeline after the call
model_evaluator_step(trained_model, X_test, y_test) ==
    IF ~IsDataFrame(X_test) \/ ~IsSeries(y_test)
    THEN [calls |-> <<>>, raised |-> <<"TypeError">>, outcome |-> "TypeError",
          result |-> None, trained_model |-> trained_model]
    ELSE LET X_test_processed == Transform(trained_model, X_test)
             transform == [step |-> "preprocessor", method |-> "transform",
                           X |-> X_test]
         IN IF X_test_processed.raised # <<>>
            THEN [calls |-> <<transform>>, raised |-> X_test_processed.raised,
                  outcome |-> X_test_processed.raised[1],
                  result |-> None, trained_model |-> trained_model]
            ELSE LET e == evaluate_model(NamedModel(trained_model),
                                         X_test_processed.value, y_test)
                     evaluation_metrics == e.result
                     predict == [step |-> "model", method |-> "predict",
                                 X |-> e.predict[1].X]
                 IN IF e.raised # <<>>
                    THEN [calls |-> <<transform, predict>>, raised |-> e.raised,
                          outcome |-> e.outcome, result |-> None,
                          trained_model |-> trained_model]
                    ELSE [calls |-> <<transform, predict>>, raised |-> <<>>,
                          outcome |-> "return",
                          result |-> <<evaluation_metrics,
                                       evaluation_metrics["Mean Squared Error"]>>,
                          trained_model |-> trained_model]

\* the pipeline model_building_step returns for (X_train, y_train)
TrainedOn(X_train, y_train) ==
    PipelineFit(NewPipeline(StepStages(X_train)), X_train, y_train).pipeline

\* the objects the step is called with: a fitted pipeline, one whose fit
\* raised at the model, one whose fit raised at the first estimator; test
\* frames the preprocessor accepts (two lengths, one with a further
\* column), one without the column it was fitted on; targets of both
\* lengths and with a missing value; and an array
StepObjects ==
    << TrainedOn(NumericOnly(Features(SplitFrame(MaxFERows), "target")),
                 TargetOf(MaxFERows)),
       TrainedOn(NumericOnly(Features(SplitFrame(MaxFERows), "target")),
                 TargetOf(MaxFERows - 1)),
       TrainedOn(NumericOnly(Features(SplitFrame(0), "target")), TargetOf(0)),
       NumericOnly(Features(SplitFrame(MaxFERows), "target")),
       NumericOnly(Features(SplitFrame(MaxFERows - 1), "target")),
       Features(SplitFrame(MaxFERows), "target"),
       DropColumns(SplitFrame(MaxFERows), {"A"}),
       TargetOf(MaxFERows), TargetOf(MaxFERows - 1), WithMissing(TargetOf(MaxFERows)),
       NdArray(MaxFERows) >>

EvalStepInit ==
    /\ strategy = [c \in {"ModelEvaluator"} |-> "RegressionModelEvaluationStrategy"]
    /\ given = strategy
    /\ last = NoCall
    /\ memo = NoCall
    /\ np_random = 0
    /\ fitted = <<>>
    /\ active_run = FALSE
    /\ autolog = FALSE
    /\ heap = StepObjects
    /\ registry = <<>>
    /\ extracted_data = <<>>

\* model_evaluator_step on the objects m, x and y; seq counts the calls
EvaluatorStep(m, x, y) ==
    \E r \in {model_evaluator_step(heap[m], heap[x], heap[y])} :
        /\ last' = [op |-> "model_evaluator_step", ctx |-> "step",
                    seq |-> IF last = NoCall THEN 1 ELSE last.seq + 1,
                    refs |-> <<m, x, y>>,
                    args |-> <<heap[m], heap[x], heap[y]>>,
                    calls |-> r.calls, raised |-> r.raised,
                    outcome |-> r.outcome, result |-> r.result]
        /\ last'.seq <= MaxEvaluations
        /\ heap' = [heap EXCEPT ![m] = r.trained_model]
        /\ UNCHANGED <<strategy, given, memo, np_random, fitted, active_run,
                       autolog, registry, extracted_data>>

EvaluatorStepCall ==
    \E m, x, y \in 1..Len(heap) :
        /\ IsPipeline(heap[m]) /\ ~IsPipeline(heap[x]) /\ ~IsPipeline(heap[y])
        /\ EvaluatorStep(m, x, y)

EvalStepNext == EvaluatorStepCall

SpecEvalStep == EvalStepInit /\ [][EvalStepNext]_vars

(***************************************************************************)
(* Deployment: continuous_deployment_pipeline and inference_pipeline.      *)
(***************************************************************************)
\* the name of the pipeline continuous_deployment_pipeline: a pipeline
\* declared without a name is named after its function
ContinuousDeploymentName == "continuous_deployment_pipeline"

\* the name of the deployer step inside it: a step is named after its
\* function
DeployerStepName == "mlflow_model_deployer_step"

\* the pipeline_name and step_name inference_pipeline passes to
\* prediction_service_loader
LoaderPipelineName == "continuous_deployment_pipeline"
LoaderStepName == "mlflow_model_deployer_step,"

\* the most runs of continuous_deployment_pipeline in one behaviour
MaxDeployments == 3

\* a served model, as the model deployer keeps it: the pipeline and the step
\* that deployed it, the training run whose model it serves, and the service
Deployment(pipeline_name, step_name, run) ==
    [pipeline_name |-> pipeline_name, pipeline_step_name |-> step_name,
     run |-> run, service |-> Start(Service(ToString(run), TRUE))]

\* the positions of the services deployed under both names
FindModelServer(services, pipeline_name, step_name) ==
    SelectPos(services,
              {s \in Range(services) : /\ s.pipeline_name = pipeline_name
                                       /\ s.pipeline_step_name = step_name},
              1)

\* mlflow_model_deployer_step(deploy_decision=True, model=trained_model) run
\* as the step step_name of the pipeline pipeline_name: the service already
\* deployed under both names is updated to the model, else one is created
mlflow_model_deployer_step(services, pipeline_name, step_name, run) ==
    LET existing == FindModelServer(services, pipeline_name, step_name)
        new == Deployment(pipeline_name, step_name, run)
    IN IF existing = <<>> THEN Append(services, new)
       ELSE [services EXCEPT ![existing[1]] = new]

\* prediction_service_loader(pipeline_name, step_name): the first service
\* deployed under both names, RuntimeError when there is none
prediction_service_loader(services, pipeline_name, step_name) ==
    LET existing == FindModelServer(services, pipeline_name, step_name)
    IN IF existing = <<>>
       THEN [raised |-> <<"RuntimeError">>, value |-> None]
       ELSE [raised |-> <<>>, value |-> services[existing[1]].service]

\* one run of inference_pipeline on the batch_data that dynamic_importer
\* returned: the names looked up, the service found, how the run ends and
\* what predictor returned
inference_pipeline(services, batch_data) ==
    LET model_deployment_service ==
            prediction_service_loader(services, LoaderPipelineName, LoaderStepName)
        lookup == <<LoaderPipelineName, LoaderStepName>>
    IN IF model_deployment_service.raised # <<>>
       THEN [lookup |-> lookup, found |-> None,
             outcome |-> model_deployment_service.raised[1], result |-> None]
       ELSE LET r == predictor(model_deployment_service.value, batch_data)
            IN [lookup |-> lookup, found |-> model_deployment_service.value,
                outcome |-> r.outcome, result |-> r.result]

DeployInit ==
    /\ strategy = <<>>
    /\ given = <<>>
    /\ last = NoCall
    /\ memo = NoCall
    /\ np_random = 0
    /\ fitted = <<>>
    /\ active_run = FALSE
    /\ autolog = FALSE
    /\ heap = <<>>
    /\ registry = <<>>
    /\ extracted_data = <<>>

\* one run of continuous_deployment_pipeline: np_random counts the runs,
\* and the model of run k is deployed by the deployer step
ContinuousDeployment ==
    /\ np_random < MaxDeployments
    /\ np_random' = np_random + 1
    /\ heap' = mlflow_model_deployer_step(heap, ContinuousDeploymentName,
                                          DeployerStepName, np_random')
    /\ last' = [op |-> "continuous_deployment_pipeline",
                deployed |-> <<ContinuousDeploymentName, DeployerStepName>>,
                run |-> np_random', outcome |-> "return"]
    /\ UNCHANGED <<strategy, given, memo, fitted, active_run, autolog,
                   registry, extracted_data>>

\* one run of inference_pipeline
Inference(batch_data) ==
    \E r \in {inference_pipeline(heap, batch_data)} :
        /\ last' = [op |-> "inference_pipeline", args |-> <<batch_data>>,
                    lookup |-> r.lookup, found |-> r.found,
                    outcome |-> r.outcome, result |-> r.result]
        /\ UNCHANGED <<strategy, given, memo, np_random, fitted, active_run,
                       autolog, heap, registry, extracted_data>>

InferenceRun == \E batch_data \in Payloads : Inference(batch_data)

DeployNext == ContinuousDeployment \/ InferenceRun

SpecDeploy == DeployInit /\ [][DeployNext]_vars

(***************************************************************************)
(* Properties of error handling                                            *)
(***************************************************************************)
\* C4: a call in which an exception is raised never returns a normal result:
\* it ends with that exception.
C4_FailuresPropagate ==
    (last.op \in {"build_model", "model_building_step"} /\ last.raised # <<>>)
        => (last.outcome # "return" /\ last.result = None)

(***************************************************************************)
(* Properties of model building                                            *)
(***************************************************************************)
BuildOps == {"build_model", "model_building_step"}

\* the value is a numpy array: neither a DataFrame nor a Series
IsArray(v) == "shape" \in DOMAIN v

\* the last call was a model-building call that constructed a pipeline
Constructed == last.op \in BuildOps /\ last.trace # <<>>

\* the pipeline object created last
Built == heap[Len(heap)]

EstimatorsOf(p) == [k \in 1..Len(p.stages) |-> p.stages[k].estimator]

\* C11: a model-building call given an array for X_train or for y_train ends
\* with TypeError, and it has then constructed and fitted no pipeline and
\* started or ended no tracking run: the objects and the tracking state are
\* as before the call.
C11_TypeErrorFirst ==
    /\ []((last.op \in BuildOps /\ (IsArray(last.args[1]) \/ IsArray(last.args[2])))
            => /\ last.outcome = "TypeError"
               /\ last.result = None
               /\ last.trace = <<>>
               /\ ~last.started)
    /\ [][(/\ last' # last
           /\ last'.op \in BuildOps
           /\ (IsArray(last'.args[1]) \/ IsArray(last'.args[2])))
              => UNCHANGED <<heap, active_run, autolog>>]_vars

\* the step was given a DataFrame and an array as target while a run was
\* active and pipelines of earlier calls exist
C11_Witness ==
    /\ last.op = "model_building_step"
    /\ IsDataFrame(last.args[1]) /\ IsArray(last.args[2])
    /\ last.outcome = "TypeError"
    /\ active_run
    /\ heap # <<>>

\* C12 as stated: every constructed pipeline applies mean imputation, mode
\* imputation, one-hot encoding, scaling and linear regression, in this order.
C12_Original ==
    Constructed =>
        EstimatorsOf(Built) =
            <<"SimpleImputer(mean)", "SimpleImputer(most_frequent)",
              "OneHotEncoder", "StandardScaler", "LinearRegression">>

\* C12: the pipeline of model_building_step applies mean imputation to the
\* numeric columns, mode imputation and then one-hot encoding to the
\* categorical columns, and then linear regression, with no scaling, and
\* every column of X_train is in exactly one of the two branches; the
\* pipeline of build_and_train_model applies standard scaling to all columns
\* and then linear regression.
C12_PipelineOrder ==
    Constructed =>
        LET X == last.args[1]
            s == Built.stages
        IN IF last.op = "model_building_step"
           THEN /\ EstimatorsOf(Built) =
                       <<"SimpleImputer(mean)", "SimpleImputer(most_frequent)",
                         "OneHotEncoder", "LinearRegression">>
                /\ s[3].columns = s[2].columns
                /\ \A c \in Range(X.columns) :
                       (c \in Range(s[1].columns)) # (c \in Range(s[2].columns))
                /\ Range(s[1].columns) \cup Range(s[2].columns) = Range(X.columns)
           ELSE /\ EstimatorsOf(Built) = <<"StandardScaler", "LinearRegression">>
                /\ s[1].columns = X.columns

\* the step built a pipeline for a frame with a numeric and a categorical
\* column
C12_Witness ==
    /\ Constructed
    /\ last.op = "model_building_step"
    /\ Built.stages[1].columns = <<"A">>
    /\ Built.stages[2].columns = <<"B">>

\* C13: no estimator of a pipeline is ever fitted more than once, and every
\* estimator that is not skipped is fitted once when fit completes; a call
\* that returns, returns an object that did not exist before the call; and
\* no call changes an object created earlier.
C13_IndependentFit ==
    /\ [](\A i \in 1..Len(heap) : \A k \in 1..Len(heap[i].stages) :
             heap[i].fits[k] <= 1)
    /\ []((Constructed /\ last.raised # <<"ValueError">>) =>
             \A k \in 1..Len(Built.stages) :
                 Built.fits[k] = IF Skipped(Built.stages[k]) THEN 0 ELSE 1)
    /\ [][(last' # last /\ last'.op \in BuildOps /\ last'.outcome = "return")
              => /\ last'.result = Ref(Len(heap) + 1)
                 /\ Len(heap') = Len(heap) + 1]_vars
    /\ [][\A i \in 1..Len(heap) : Len(heap') >= i /\ heap'[i] = heap[i]]_vars

\* the step returned a second pipeline, fitted on a frame with a categorical
\* column, after a first one was built and fitted by the strategy
C13_Witness ==
    /\ last.op = "model_building_step"
    /\ last.outcome = "return"
    /\ last.result = Ref(2)
    /\ heap[2].fits = <<1, 1, 1, 1>>
    /\ heap[1].fits = <<1, 1>>

\* C18: when an exception is raised in the try block of model_building_step,
\* the step logs it as an error, ends by returning, and returns the pipeline
\* it constructed.
C18_SwallowedInStep ==
    (last.op = "model_building_step" /\ last.trace # <<>> /\ last.raised # <<>>)
        => /\ last.logged = last.raised
           /\ last.outcome = "return"
           /\ last.result = Ref(Len(heap))
           /\ Built.class = "Pipeline"

\* fitting raised at the first estimator and the step returned the pipeline
\* with no estimator fitted
C18_Witness ==
    /\ last.op = "model_building_step"
    /\ last.raised = <<"ValueError">>
    /\ last.outcome = "return"
    /\ Built.fits = <<0, 0, 0, 0>>

\* C22: a call of model_building_step that has passed its type checks
\* calls start_run exactly when no run was active at the call, calls end_run
\* last, whether or not an exception was raised in the try block, and leaves
\* no run active.
C22_RunEnded ==
    [][(/\ last' # last
        /\ last'.op = "model_building_step"
        /\ last'.trace # <<>>)
           => /\ last'.started = ~active_run
              /\ ("start_run" \in Range(last'.trace)) = ~active_run
              /\ last'.trace[Len(last'.trace)] = "end_run"
              /\ Cardinality({k \in 1..Len(last'.trace) :
                                 last'.trace[k] = "end_run"}) = 1
              /\ ~active_run']_vars

\* the step was called while a run was active, fitting raised, and no run
\* is active after it
C22_Witness ==
    /\ last.op = "model_building_step"
    /\ last.run_before
    /\ ~last.started
    /\ last.raised = <<"ValueError">>
    /\ last.outcome = "return"
    /\ ~active_run

(***************************************************************************)
(* Properties of data splitting                                            *)
(***************************************************************************)
SplitReturned == last.op = "split" /\ last.outcome = "return"

\* the call kept in memo and the last call are splits of the same dataset by
\* the same target column with the same test_size and random_state
SameSplitCall ==
    /\ memo.op = "split"
    /\ last.op = "split"
    /\ memo.args = last.args
    /\ memo.strat = last.strat

\* C5: with an int random_state, two split_data calls with the same dataset,
\* target column and test_size end the same way and return identical
\* (X_train, X_test, y_train, y_test), whatever was called in between.
C5_SplitDeterministic ==
    (SameSplitCall /\ last.strat.random_state # NoSeed)
        => (memo.outcome = last.outcome /\ memo.result = last.result)

\* two equal seeded splits that returned, with the global generator having
\* been advanced by other calls between them
C5_Witness ==
    /\ SameSplitCall
    /\ last.strat = DefaultSplitStrategy
    /\ last.outcome = "return"
    /\ memo.rng # last.rng

\* every row of part is the row of whole with the same label
RowsFrom(part, whole) ==
    \A k \in 1..NRows(part) : part.data[k] = RowAt(whole, part.index[k])

\* C6: a returned split is a partition of the input rows: train and test are
\* row-disjoint, together hold every input row exactly once, X and y of each
\* side hold the same rows, and with test_size 0.2 the test side holds
\* ceil(0.2 * n) rows and the train side the rest.
C6_SplitPartition ==
    SplitReturned =>
        LET df == last.args[1]
            r == last.result
            n == NRows(df)
            X == DropColumns(df, {last.args[2]})
        IN /\ Labels(r.X_train) \cap Labels(r.X_test) = {}
           /\ Labels(r.X_train) \cup Labels(r.X_test) = Labels(df)
           /\ NRows(r.X_train) + NRows(r.X_test) = n
           /\ Cardinality(Labels(r.X_train)) = NRows(r.X_train)
           /\ Cardinality(Labels(r.X_test)) = NRows(r.X_test)
           /\ RowsFrom(r.X_train, X) /\ RowsFrom(r.X_test, X)
           /\ r.y_train.index = r.X_train.index
           /\ r.y_test.index = r.X_test.index
           /\ last.strat.test_size = 20 =>
                  /\ 5 * NRows(r.X_test) >= n
                  /\ 5 * (NRows(r.X_test) - 1) < n
                  /\ NRows(r.X_train) = n - NRows(r.X_test)

\* a returned default split whose 20% is not a whole number of rows
C6_Witness ==
    /\ SplitReturned
    /\ last.strat = DefaultSplitStrategy
    /\ NRows(last.args[1]) = 4
    /\ NRows(last.result.X_test) = 1
    /\ NRows(last.result.X_train) = 3

\* the values of column c of df at the row labels of the series y, in order
ColumnAt(df, c, y) ==
    [k \in 1..Len(y.index) |-> RowAt(df, y.index[k])[ColPos(df.columns, c)]]

\* C7: a returned split has the target column in neither feature set, every
\* other column in both, and y_train/y_test holding the target column's
\* values; a target column that is not in the dataset ends the call with a
\* KeyError and no split.
C7_SplitByTarget ==
    last.op = "split" =>
        LET df == last.args[1]
            target_column == last.args[2]
            r == last.result
            others == SelectPos(df.columns, Range(df.columns) \ {target_column}, 1)
            otherColumns == [j \in 1..Len(others) |-> df.columns[others[j]]]
        IN /\ target_column \notin Range(df.columns) =>
                  (last.outcome = "KeyError" /\ r = None)
           /\ last.outcome = "return" =>
                  /\ target_column \in Range(df.columns)
                  /\ target_column \notin Range(r.X_train.columns)
                  /\ target_column \notin Range(r.X_test.columns)
                  /\ r.X_train.columns = otherColumns
                  /\ r.X_test.columns = otherColumns
                  /\ r.y_train.name = target_column
                  /\ r.y_test.name = target_column
                  /\ r.y_train.values = ColumnAt(df, target_column, r.y_train)
                  /\ r.y_test.values = ColumnAt(df, target_column, r.y_test)

\* a split by a present target column that returned, after a split by a
\* missing one that raised
C7_Witness ==
    /\ SplitReturned
    /\ memo.op = "split"
    /\ memo.outcome = "KeyError"
    /\ NRows(last.result.X_train) >= 2

(***************************************************************************)
(* Properties of feature engineering                                       *)
(***************************************************************************)
DefaultIndex(df) == df.index = [i \in 1..NRows(df) |-> i - 1]

Applied == last.op = "apply"
AppliedAndReturned == Applied /\ last.outcome = "return"

C8_RowsPreserved ==
    AppliedAndReturned =>
        LET df == last.args[1]
            out == last.result
            untouched == Range(df.columns) \ Range(FEFeatures(last.strat))
        IN /\ NRows(out) = NRows(df)
           /\ Len(out.data) = NRows(df)
           /\ \A i \in 1..NRows(df) : \A c \in untouched :
                  /\ c \in Range(out.columns)
                  /\ out.data[i][ColPos(out.columns, c)]
                         = df.data[i][ColPos(df.columns, c)]

\* one-hot encoding of a train partition, whose index is not 0..n-1
C8_Witness ==
    /\ AppliedAndReturned
    /\ last.strat = "onehot"
    /\ ~DefaultIndex(last.args[1])
    /\ NRows(last.args[1]) >= 2

\* C9 as stated: parameters an instance has learned are the ones it keeps
\* using: a later call that returns does not change them.
C9_Original ==
    [][(last'.op = "apply" /\ last'.outcome = "return") =>
          \A i \in StatefulInstances :
              fitted[i] # Unfitted => fitted'[i] = fitted[i]]_vars

\* C9 (as amended): every apply_transformation call of StandardScaling,
\* MinMaxScaling and OneHotEncoding that returns has learned its parameters
\* (mean and variance, minimum and maximum, category vocabulary) from the
\* dataset passed to that call, replacing what an earlier call learned, and
\* the returned values are computed with them.
C9_RefitEachCall ==
    (AppliedAndReturned /\ last.strat \in StatefulInstances) =>
        LET df == last.args[1]
            inst == last.strat
            n == NRows(df)
        IN \A f \in Range(FEFeatures(inst)) :
            LET p == fitted[inst][f]
                xs == ColumnNumbers(df, f)
                sum == SeqSum(xs)
                sumsq == SeqSum([i \in 1..n |-> xs[i] * xs[i]])
                outCells == ColumnCells(last.result, f)
            IN CASE inst = "standard" ->
                      /\ p.mean[1] * n = sum * p.mean[2]
                      /\ p.var[1] * n * n = (n * sumsq - sum * sum) * p.var[2]
                      /\ \A i \in 1..n : outCells[i] = StandardTransform(p, xs[i])
                 [] inst = "minmax" ->
                      /\ p.min \in Range(xs) /\ p.max \in Range(xs)
                      /\ \A i \in 1..n : p.min <= xs[i] /\ xs[i] <= p.max
                      /\ \A i \in 1..n : outCells[i] = MinMaxTransform(p, xs[i])
                 [] inst = "onehot" ->
                      Range(p) = {c \in Range(CategoryOrder) :
                                     Cat(c) \in Range(ColumnCells(df, f))}

\* an instance that held parameters learned from another dataset and has
\* replaced them in this call
C9_Witness ==
    /\ AppliedAndReturned
    /\ last.strat \in StatefulInstances
    /\ last.refit

\* the categories observed in column f of df, and the one that sorts first
Observed(df, f) == {c \in Range(CategoryOrder) : Cat(c) \in Range(ColumnCells(df, f))}
RankOf(c) == CHOOSE k \in 1..Len(CategoryOrder) : CategoryOrder[k] = c
Reference(df, f) ==
    CHOOSE c \in Observed(df, f) : \A o \in Observed(df, f) : RankOf(c) <= RankOf(o)

\* C10: one-hot encoding removes every encoded column, keeps every other
\* column with its values, and adds for each encoded column one indicator
\* column <column>_<category> per observed category except the reference
\* (first sorted) one, so (number of observed categories - 1) columns; each
\* indicator is 0 or 1, a row has 1 in the column of its own category and 0
\* elsewhere, and none set when it holds the reference category.
C10_OneHot ==
    (AppliedAndReturned /\ last.strat = "onehot") =>
        LET df == last.args[1]
            out == last.result
            features == FEFeatures("onehot")
            kept == Range(df.columns) \ Range(features)
        IN /\ \A f \in Range(features) : f \notin Range(out.columns)
           /\ \A c \in kept :
                  /\ c \in Range(out.columns)
                  /\ ColumnCells(out, c) = ColumnCells(df, c)
           /\ Len(out.columns) = Cardinality(kept)
                  + SeqSum([k \in 1..Len(features) |->
                               Cardinality(Observed(df, features[k])) - 1])
           /\ \A i \in 1..NRows(out) : Len(out.data[i]) = Len(out.columns)
           /\ \A f \in Range(features) :
                  /\ (f \o "_" \o Reference(df, f)) \notin Range(out.columns)
                  /\ \A c \in Observed(df, f) \ {Reference(df, f)} :
                         /\ (f \o "_" \o c) \in Range(out.columns)
                         /\ \A i \in 1..NRows(df) :
                                ColumnCells(out, f \o "_" \o c)[i] =
                                    IF ColumnCells(df, f)[i] = Cat(c)
                                    THEN Num(1) ELSE Num(0)

\* column B with the categories x, y and z becomes B_y and B_z
C10_Witness ==
    /\ AppliedAndReturned
    /\ last.strat = "onehot"
    /\ Observed(last.args[1], "B") = {"x", "y", "z"}
    /\ last.result.columns = <<"A", "target", "B_y", "B_z">>

(***************************************************************************)
(* Properties of model evaluation                                          *)
(***************************************************************************)
\* the last call was an evaluate call whose predict returned
PredictSucceeded == last.op = "evaluate" /\ last.predict[1].raised = <<>>

\* C14: an evaluate call calls predict once, on X_test, and when predict
\* returns, the call returns a mapping with exactly the keys "Mean Squared
\* Error" and "R-Squared", holding the mean squared error and the R-squared
\* of the predictions against y_test.
C14_EvaluateMetrics ==
    last.op = "evaluate" =>
        /\ Len(last.predict) = 1
        /\ last.predict[1].X = last.args[2]
        /\ PredictSucceeded =>
              LET y_test == last.args[3]
                  y_pred == last.predict[1].value
              IN /\ last.outcome = "return"
                 /\ DOMAIN last.result = {"Mean Squared Error", "R-Squared"}
                 /\ ~MetricInputRejected(y_test, y_pred) =>
                       /\ last.result["Mean Squared Error"]
                             = mean_squared_error(MseArgsSeparate(y_test, y_pred)).value
                       /\ last.result["R-Squared"]
                             = r2_score(<<y_test, y_pred>>).value

\* the call kept in memo and the last call are evaluate calls on the same
\* model, X_test and y_test objects
SameEvaluation ==
    /\ memo.op = "evaluate"
    /\ last.op = "evaluate"
    /\ memo.refs = last.refs

C16_UnsupportedFormat ==
    /\ []((last.op = "get_data_ingestor" /\ last.args[1] # ".zip")
            => (last.outcome = "ValueError" /\ last.result = None))
    /\ []((last.op = "ingest" /\ ~EndsWith(last.args[1], ".zip"))
            => /\ last.outcome = "ValueError"
               /\ last.result = None
               /\ last.opened = <<>>)
    /\ [][(/\ last' # last
           /\ \/ last'.op = "get_data_ingestor"
              \/ last'.op = "ingest" /\ ~EndsWith(last'.args[1], ".zip"))
              => UNCHANGED <<extracted_data, heap>>]_vars

\* ingest was given an archive whose name does not end in ".zip" after an
\* earlier call had extracted files
C16_Witness ==
    /\ last.op = "ingest"
    /\ last.args[1] = "archive.zip.bak"
    /\ last.outcome = "ValueError"
    /\ extracted_data # <<>>

\* C17: an ingest call on an archive returns the table of the one .csv file
\* inside that archive, and ends with an error when the archive holds no
\* .csv file or more than one, whatever was ingested before.
C17_IngestByArchive ==
    (last.op = "ingest" /\ EndsWith(last.args[1], ".zip")
        /\ OpenRaises(last.args[1]) = <<>>)
        => LET members == InputFiles[last.args[1]].members
               csv == CsvFiles(members)
           IN IF Cardinality(csv) = 1
              THEN /\ last.outcome = "return"
                   /\ last.result = ReadCsv(members[CHOOSE f \in csv : TRUE])
              ELSE last.outcome \in {"FileNotFoundError", "ValueError"}

(***************************************************************************)
(* Properties of the model registry                                        *)
(***************************************************************************)
\* the versions of the model the step writes to
Trained == registry["prices_predictor"]

\* C19: a training run adds a version of "prices_predictor" whose artifact
\* "sklearn_pipeline" is the pipeline the step returned; model_loader(name)
\* returns the artifact "sklearn_pipeline" of the version of that model
\* tagged "production", whichever version is the newest, and ends with an
\* error when there is none; and model_loader never changes the registry.
C19_LoadProduction ==
    /\ []((last.op = "training_run" /\ last.outcome = "return") =>
             /\ Trained # <<>>
             /\ DOMAIN Trained[Len(Trained)].artifacts = {"sklearn_pipeline"}
             /\ Trained[Len(Trained)].artifacts["sklearn_pipeline"]
                   = heap[last.result[2]])
    /\ [](last.op = "model_loader" =>
             LET name == last.args[1]
                 tagged == IF name \in DOMAIN registry
                           THEN {k \in 1..Len(registry[name]) :
                                    registry[name][k].stage = "production"}
                           ELSE {}
             IN /\ Cardinality(tagged) <= 1
                /\ tagged = {} => last.outcome # "return"
                /\ \A k \in tagged :
                      /\ last.outcome = "return"
                      /\ last.result = registry[name][k].artifacts["sklearn_pipeline"])
    /\ [][(last' # last /\ last'.op = "model_loader") => registry' = registry]_vars

\* model_loader("prices_predictor") returned the pipeline of version 1, the
\* production version, while the newer version 2 holds another pipeline
C19_Witness ==
    /\ last.op = "model_loader"
    /\ last.args[1] = "prices_predictor"
    /\ last.outcome = "return"
    /\ Len(Trained) = 2
    /\ Trained[1].stage = "production"
    /\ last.result = Trained[1].artifacts["sklearn_pipeline"]
    /\ last.result # Trained[2].artifacts["sklearn_pipeline"]

(***************************************************************************)
(* Properties of inference                                                 *)
(***************************************************************************)
\* the payload of the last predictor call is a JSON object whose "data"
\* holds rows of which the longest has one value per expected column
WellFormedPayload ==
    /\ last.op = "predictor"
    /\ last.args[2].type = "object"
    /\ "data" \in DOMAIN last.args[2].value
    /\ \A i \in 1..Len(last.args[2].value["data"]) :
           Len(last.args[2].value["data"][i]) <= 38
    /\ \/ last.args[2].value["data"] = <<>>
       \/ \E i \in 1..Len(last.args[2].value["data"]) :
             Len(last.args[2].value["data"][i]) = 38

\* C20: for a well-formed payload, with or without the keys "columns" and
\* "index", predictor drops these two keys, makes exactly one predict call,
\* with one record per row of "data" in the order of the rows, in which the
\* j-th value of the row is held under the j-th expected column, and ends as
\* the predict call ends, returning its prediction as it is.
C20_PredictorForwards ==
    WellFormedPayload =>
        LET rows == last.args[2].value["data"]
        IN /\ last.keys = DOMAIN last.args[2].value \ {"columns", "index"}
           /\ Len(last.calls) = 1
           /\ Len(last.calls[1].arg) = Len(rows)
           /\ \A i \in 1..Len(rows) :
                 /\ DOMAIN last.calls[1].arg[i] = Range(ExpectedColumns)
                 /\ \A j \in 1..Len(rows[i]) :
                       last.calls[1].arg[i][ExpectedColumns[j]] = rows[i][j]
           /\ last.result = last.calls[1].returned
           /\ last.outcome = IF last.calls[1].raised = <<>> THEN "return"
                             ELSE last.calls[1].raised[1]

\* a payload without the bookkeeping keys and with two different rows was
\* forwarded and the prediction returned
C20_Witness ==
    /\ WellFormedPayload
    /\ DOMAIN last.args[2].value = {"data"}
    /\ Len(last.args[2].value["data"]) = 2
    /\ last.args[2].value["data"][1] # last.args[2].value["data"][2]
    /\ last.outcome = "return"
    /\ Len(last.result) = 2

(***************************************************************************)
(* Properties of feature engineering: the input dataset                    *)
(***************************************************************************)
\* C24: after apply_transformation of any of the four strategies has
\* returned or failed, the input dataset holds the columns, values and row
\* index it held at the call, and in a returned dataset every column that is
\* not in the strategy's feature list holds the values it holds in the input,
\* in the same row order.
C24_InputUnchanged ==
    Applied =>
        /\ last.input = last.args[1]
        /\ last.outcome = "return" =>
               \A c \in Range(last.args[1].columns) \ Range(FEFeatures(last.strat)) :
                   /\ c \in Range(last.result.columns)
                   /\ ColumnCells(last.result, c) = ColumnCells(last.args[1], c)

\* a scaling has rewritten a column of a dataset with rows and returned, and
\* the dataset has a column outside the feature list
C24_Witness ==
    /\ AppliedAndReturned
    /\ last.strat = "standard"
    /\ NRows(last.args[1]) = MaxFERows
    /\ last.result # last.args[1]
    /\ "B" \in Range(last.args[1].columns)
    /\ last.input = last.args[1]

(***************************************************************************)
(* Properties of the evaluation step                                       *)
(***************************************************************************)
\* the last call was a model_evaluator_step call
StepEvaluated == last.op = "model_evaluator_step"

\* the step was given a DataFrame and a Series, a fitted pipeline, a test
\* set with the columns the preprocessor was fitted on, and a target the
\* metrics accept
WellFormedEvaluation ==
    /\ StepEvaluated
    /\ IsDataFrame(last.args[2]) /\ IsSeries(last.args[3])
    /\ Transform(last.args[1], last.args[2]).raised = <<>>
    /\ NamedModel(last.args[1]).is_fitted
    /\ Len(last.args[3].values) = NRows(last.args[2])
    /\ NaN \notin Range(last.args[3].values)

\* C21: model_evaluator_step ends with TypeError, having called nothing on
\* the pipeline, for an X_test that is no DataFrame or a y_test that is no
\* Series; otherwise it calls transform of the preprocessor step on X_test
\* and then at most predict of the model step on the transformed data, and
\* nothing else; the pipeline is the same after the call; and for a fitted
\* pipeline and a well-formed test set it returns the pair (metrics, mse)
\* with mse the entry "Mean Squared Error" of metrics.
C21_EvaluatorStep ==
    /\ [](StepEvaluated =>
            /\ (~IsDataFrame(last.args[2]) \/ ~IsSeries(last.args[3]))
                  => (last.outcome = "TypeError" /\ last.calls = <<>>)
            /\ (IsDataFrame(last.args[2]) /\ IsSeries(last.args[3]))
                  => /\ Len(last.calls) \in {1, 2}
                     /\ last.calls[1] = [step |-> "preprocessor",
                                         method |-> "transform",
                                         X |-> last.args[2]]
                     /\ Len(last.calls) = 2
                           => last.calls[2] =
                                 [step |-> "model", method |-> "predict",
                                  X |-> Transform(last.args[1], last.args[2]).value]
            /\ heap[last.refs[1]] = last.args[1]
            /\ WellFormedEvaluation
                  => /\ last.outcome = "return"
                     /\ Len(last.result) = 2
                     /\ DOMAIN last.result[1] = {"Mean Squared Error", "R-Squared"}
                     /\ last.result[2] = last.result[1]["Mean Squared Error"])
    /\ [][heap' = heap]_vars

(***************************************************************************)
(* Properties of deployment                                                *)
(***************************************************************************)
\* the services continuous_deployment_pipeline has deployed
DeployedByPipeline ==
    FindModelServer(heap, ContinuousDeploymentName, DeployerStepName)

\* C23: every run of inference_pipeline looks the prediction service up
\* under the name of continuous_deployment_pipeline and the name of its
\* deployer step, and once continuous_deployment_pipeline has deployed a
\* service, a run of inference_pipeline finds that service.
C23_ServiceFound ==
    last.op = "inference_pipeline" =>
        /\ last.lookup = <<ContinuousDeploymentName, DeployerStepName>>
        /\ DeployedByPipeline # <<>> =>
               /\ last.outcome # "RuntimeError"
               /\ last.found = heap[DeployedByPipeline[1]].service

====
